---- MODULE Spec2Model ----
(***************************************************************************)
(* Chart helper functions (chartHelper.ts) and the drag target container   *)
(* (ChartDraggableTargetContainer.tsx) of datart, as state machines.       *)
(*                                                                         *)
(* JavaScript strings are TLA+ strings.  A JavaScript value is a record    *)
(* [t, s, rows, num, den] whose tag t is "undefined", "null", "string",    *)
(* "rows" (an array of config nodes), "number" (the exact rational         *)
(* num/den in lowest terms, den > 0) or "nan".  Binary floating point      *)
(* rounding and the infinities are outside this number model.              *)
(***************************************************************************)
EXTENDS Integers, Sequences, FiniteSets

VARIABLES
    configs,    \* the style/setting config list handed to the accessors
    keyPaths,   \* the caller's key-path array (an object the callee can mutate)
    call,       \* the last accessor call: its name and its arguments at call time
    ret,        \* what that call returned
    field,      \* the data field (ChartDataSectionField) whose value is formatted
    cellValue,  \* the cell value handed to the formatter
    fmtOp,      \* the formatting function called last
    fmtRet,     \* what it returned
    tip,        \* the arguments of the tooltip call: tooltipParam and the field lists
    tipRet,     \* the tooltip string returned ("(none)" before the call)
    refIn,      \* the arguments of getReference / getReference2
    emptyMean,  \* what meanValue yields for an array without elements
    refOp,      \* which of the two was called
    refRet,     \* the {markLine, markArea} object returned
    currentConfig,         \* the section config the container holds
    onConfigChangedGiven,  \* whether the onConfigChanged prop was passed
    configChanges,         \* the calls of onConfigChanged so far
    uuidCount,             \* how many identifiers uuidv4 has generated
    handled,               \* the last handler call: its arguments and result
    steps,                 \* the number of handler calls so far
    scatterIn,   \* the arguments of getScatterSymbolSizeFn and the point it sizes
    sizeFn,      \* the function getScatterSymbolSizeFn returned (what it closes over)
    symbolSize,  \* what that function returned for the point
    axisConfig,  \* the chart config and options the axis label functions are given
    axisOp,      \* which of them was called
    axisRet,     \* what it returned
    toaIn,       \* the arguments of transformToObjectArray
    toaRet,      \* the array it returned
    reqIn,       \* the arguments of isMatchRequirement
    reqRet       \* what it returned

accVars == <<configs, keyPaths, call, ret>>
fmtVars == <<field, cellValue, fmtOp, fmtRet>>
tipVars == <<tip, tipRet>>
refVars == <<refIn, emptyMean, refOp, refRet>>
dropVars == <<currentConfig, onConfigChangedGiven, configChanges, uuidCount, handled, steps>>
scatVars == <<scatterIn, sizeFn, symbolSize>>
axisVars == <<axisConfig, axisOp, axisRet>>
toaVars == <<toaIn, toaRet>>
reqVars == <<reqIn, reqRet>>

vars == <<configs, keyPaths, call, ret, field, cellValue, fmtOp, fmtRet, tip, tipRet,
         refIn, emptyMean, refOp, refRet,
         currentConfig, onConfigChangedGiven, configChanges, uuidCount, handled, steps,
         scatterIn, sizeFn, symbolSize, axisConfig, axisOp, axisRet, toaIn, toaRet,
         reqIn, reqRet>>

----------------------------------------------------------------------------
(* Bounds *)

\* the largest number of nodes in a config list (all levels together)
MaxNodes == 3
\* the longest key path a caller builds
MaxPath == 3
\* the childTargetKeys lists callers pass
ChildKeyLists == {<<>>, <<"a">>, <<"a", "b">>, <<"b", "a">>, <<"b", "b">>}

\* the keys that occur in config nodes and in paths
Keys == {"a", "b"}
\* the target keys callers ask for
TargetKeys == {"value", "rows"}

----------------------------------------------------------------------------
(* JavaScript values *)

Undefined == [t |-> "undefined", s |-> "", rows |-> <<>>, num |-> 0, den |-> 1]
Null == [t |-> "null", s |-> "", rows |-> <<>>, num |-> 0, den |-> 1]
NaN == [t |-> "nan", s |-> "", rows |-> <<>>, num |-> 0, den |-> 1]
Str(x) == [t |-> "string", s |-> x, rows |-> <<>>, num |-> 0, den |-> 1]
RowsVal(r) == [t |-> "rows", s |-> "", rows |-> r, num |-> 0, den |-> 1]
Bool(b) == [t |-> "boolean", s |-> "", rows |-> <<>>, num |-> IF b THEN 1 ELSE 0, den |-> 1]
\* Infinity (sign = 1) and -Infinity (sign = -1)
Infinity(sign) == [t |-> "infinity", s |-> "", rows |-> <<>>, num |-> sign, den |-> 1]

Abs(x) == IF x < 0 THEN -x ELSE x

RECURSIVE Gcd(_, _)
Gcd(a, b) == IF b = 0 THEN a ELSE Gcd(b, a % b)

\* the number n/d (d > 0), in lowest terms
Num(n, d) ==
    LET g == Gcd(Abs(n), d)
    IN [t |-> "number", s |-> "", rows |-> <<>>, num |-> n \div g, den |-> d \div g]

\* Array(n).fill(undefined)
ArrayFillUndefined(n) == [i \in 1..n |-> Undefined]

Min(S) == CHOOSE x \in S : \A y \in S : x <= y

SeqsUpTo(S, n) == UNION {[1..k -> S] : k \in 0..n}

DigitChar == <<"1", "2", "3", "4", "5", "6", "7", "8", "9">>

----------------------------------------------------------------------------
(* The values the variables of an area hold while another area is at work *)

NoCall == [op |-> "none", path |-> <<>>, targetKey |-> "", childKeys |-> <<>>]

AccessorsIdle ==
    /\ configs = <<>>
    /\ keyPaths = <<>>
    /\ call = NoCall
    /\ ret = Undefined

NoFormat ==
    [present |-> FALSE, type |-> "", hasConfig |-> FALSE, hasDecimalPlaces |-> FALSE,
     decimalPlaces |-> 0, useThousandSeparator |-> FALSE, prefix |-> "", suffix |-> "",
     currency |-> "", dateFormat |-> ""]

NoField == [present |-> FALSE, alias |-> "", aggregate |-> "", colName |-> "", format |-> NoFormat]

FormatIdle ==
    /\ field = NoField
    /\ cellValue = Undefined
    /\ fmtOp = "none"
    /\ fmtRet = Undefined

\* an optional array argument that was not passed
Absent == [has |-> FALSE, items |-> <<>>]
Passed(items) == [has |-> TRUE, items |-> items]

NoTip ==
    [componentType |-> "", seriesName |-> "", dataName |-> "", hasRowData |-> FALSE,
     rowData |-> <<>>, groupConfigs |-> <<>>, colorConfigs |-> <<>>, aggConfigs |-> <<>>,
     infoConfigs |-> Absent, sizeConfigs |-> Absent]

TooltipIdle ==
    /\ tip = NoTip
    /\ tipRet = "(none)"

\* {data: undefined}, and {data: [...]}
NoData == [hasData |-> FALSE, data |-> <<>>]
Data(items) == [hasData |-> TRUE, data |-> items]

NoReference == [markLine |-> NoData, markArea |-> NoData]

ReferenceIdle ==
    /\ refIn = [settingConfigs |-> <<>>, rows |-> <<>>, dataConfig |-> NoField,
                isHorizonDisplay |-> FALSE]
    /\ emptyMean = Undefined
    /\ refOp = "none"
    /\ refRet = NoReference

NoDrag == [itemType |-> "", isArray |-> FALSE, items |-> <<>>, hasIndex |-> FALSE, index |-> 0]

\* a handler call: drop and canDrop take a drag, handleOnDeleteItem a uid,
\* handleDraggableItemMove two indexes (canDraggableItemMove is "absent", or a
\* callback that answers "allow" or "veto"); returned is what canDrop and
\* handleDraggableItemMove return
NoHandlerCall ==
    [op |-> "none", drag |-> NoDrag, rowsBefore |-> <<>>, callsBefore |-> 0,
     result |-> [delete |-> FALSE], uid |-> "", dragIndex |-> 0, hoverIndex |-> 0,
     canDraggableItemMove |-> "absent", configBefore |-> <<>>, returned |-> FALSE]

NoActions == [kind |-> "none", list |-> <<>>, byType |-> <<>>]

DropIdle ==
    /\ currentConfig = [type |-> "", actions |-> NoActions, disableAggregate |-> FALSE,
                        allowSameField |-> FALSE, hasRows |-> FALSE, rows |-> <<>>]
    /\ onConfigChangedGiven = FALSE
    /\ configChanges = <<>>
    /\ uuidCount = 0
    /\ handled = NoHandlerCall
    /\ steps = 0

NoScatter ==
    [valueIndex |-> 0, max |-> Undefined, min |-> Undefined, cycleRatio |-> Undefined,
     val |-> Absent]

NoSizeFn == [made |-> FALSE, valueIndex |-> 0, min |-> Undefined, scaleRatio |-> Undefined,
             distance |-> Undefined]

ScatterIdle ==
    /\ scatterIn = NoScatter
    /\ sizeFn = NoSizeFn
    /\ symbolSize = Undefined

\* an axisLabel option object; written names the properties the program
\* assigned to it
AxisLabel(show, overflow, interval) ==
    [has |-> TRUE, show |-> show, overflow |-> overflow, interval |-> interval,
     hideOverlap |-> Undefined, width |-> Undefined, written |-> {}]

\* an axis without axisLabel
NoAxisLabel ==
    [has |-> FALSE, show |-> Undefined, overflow |-> Undefined, interval |-> Undefined,
     hideOverlap |-> Undefined, width |-> Undefined, written |-> {}]

\* an axis option object; axisPointer "shadow" is {show: true, type: 'shadow'}
Axis(data, axisLabel) == [data |-> data, axisLabel |-> axisLabel, axisPointer |-> "none"]

NoAxis == Axis(Absent, NoAxisLabel)

\* chart: whether getModel()?.getComponent(axisName) is there, whether the
\* axis view has a bounding rectangle, and that rectangle's width
NoAxisConfig ==
    [chart |-> [hasModel |-> FALSE, hasRect |-> FALSE, width |-> Undefined],
     xAxis |-> NoAxis, yAxis |-> NoAxis, grid |-> "", series |-> "",
     horizon |-> Undefined, axisLength |-> Undefined]

NoOptions == [has |-> FALSE, xAxis |-> Absent, yAxis |-> Absent]

\* divisors: the data lengths setWidth divided by
NoAxisRet ==
    [commonOpts |-> [grid |-> "", xAxis |-> NoAxis, yAxis |-> NoAxis, series |-> ""],
     divisors |-> {}, options |-> NoOptions, horizon |-> Undefined, returned |-> Undefined]

AxisIdle ==
    /\ axisConfig = NoAxisConfig
    /\ axisOp = "none"
    /\ axisRet = NoAxisRet

NoToaIn == [columns |-> Absent, metas |-> Absent]
NoToaRet == [done |-> FALSE, result |-> <<>>]

ToaIdle ==
    /\ toaIn = NoToaIn
    /\ toaRet = NoToaRet

NoReqIn == [meta |-> [requirements |-> Absent], config |-> [datas |-> Absent]]
NoReqRet == [done |-> FALSE, result |-> FALSE]

ReqIdle ==
    /\ reqIn = NoReqIn
    /\ reqRet = NoReqRet

----------------------------------------------------------------------------
(* Config trees: ordered lists of {key, value, rows} nodes.  hasRows tells  *)
(* a missing rows property from an empty rows array.                        *)

\* the lists of n nodes; every node without children has no rows property,
\* or (emptyRows) every such node has an empty rows array
RECURSIVE ForestsOfSize(_, _)
ForestsOfSize(n, emptyRows) ==
    IF n = 0 THEN {<<>>}
    ELSE UNION {
        { <<[key |-> k, value |-> Undefined, hasRows |-> (i > 0 \/ emptyRows), rows |-> r]>> \o rest :
            k \in Keys,
            r \in ForestsOfSize(i, emptyRows),
            rest \in ForestsOfSize(n - 1 - i, emptyRows) }
        : i \in 0..(n - 1) }

\* every node gets a value of its own, naming its position in the list
RECURSIVE Label(_, _)
Label(f, prefix) ==
    [i \in 1..Len(f) |->
        [f[i] EXCEPT !.value = Str(prefix \o DigitChar[i]),
                     !.rows = Label(f[i].rows, prefix \o DigitChar[i] \o "-")]]

ConfigLists ==
    {Label(f, "v") : f \in UNION {ForestsOfSize(n, e) : n \in 0..MaxNodes, e \in BOOLEAN}}

\* utils/object isEmptyArray: null, undefined or an array without elements
isEmptyArray(a) == Len(a) = 0

\* group[targetKey]
Field(group, targetKey) ==
    CASE targetKey = "value" -> group.value
      [] targetKey = "key" -> Str(group.key)
      [] targetKey = "rows" -> IF group.hasRows THEN RowsVal(group.rows) ELSE Undefined
      [] OTHER -> Undefined

\* iterators.find(sc => sc.key === key): the index of the first match, 0 if none
FindKey(iterators, hasKey, key) ==
    LET hits == {i \in 1..Len(iterators) : hasKey /\ iterators[i].key = key}
    IN IF hits = {} THEN 0 ELSE Min(hits)

\* The while loop of getValue.  keyPaths.shift() removes the first element of
\* the array it is given and yields undefined on an empty array.  The result
\* is the returned value and the array as the loop leaves it.
RECURSIVE getValueLoop(_, _, _)
getValueLoop(iterators, paths, targetKey) ==
    IF isEmptyArray(iterators)
    THEN [value |-> Undefined, keyPaths |-> paths]
    ELSE LET hasKey == Len(paths) > 0
             key == IF hasKey THEN Head(paths) ELSE ""
             shifted == IF hasKey THEN Tail(paths) ELSE paths
             g == FindKey(iterators, hasKey, key)
         IN IF g = 0
            THEN [value |-> Undefined, keyPaths |-> shifted]
            ELSE IF isEmptyArray(shifted)
                 THEN [value |-> Field(iterators[g], targetKey), keyPaths |-> shifted]
                 ELSE getValueLoop(iterators[g].rows, shifted, targetKey)

\* getValue without the step "iterators = group.rows": every key is looked up
\* in the top-level list
RECURSIVE getValueSameLevel(_, _, _)
getValueSameLevel(iterators, paths, targetKey) ==
    IF isEmptyArray(iterators)
    THEN [value |-> Undefined, keyPaths |-> paths]
    ELSE LET hasKey == Len(paths) > 0
             key == IF hasKey THEN Head(paths) ELSE ""
             shifted == IF hasKey THEN Tail(paths) ELSE paths
             g == FindKey(iterators, hasKey, key)
         IN IF g = 0
            THEN [value |-> Undefined, keyPaths |-> shifted]
            ELSE IF isEmptyArray(shifted)
                 THEN [value |-> Field(iterators[g], targetKey), keyPaths |-> shifted]
                 ELSE getValueSameLevel(iterators, shifted, targetKey)

getValue(cfgs, paths, targetKey) == getValueLoop(cfgs, paths, targetKey)

\* getStyleValue: getValue with the default target key
getStyleValue(styleConfigs, paths) == getValue(styleConfigs, paths, "value")

\* String.prototype.split('.')
RECURSIVE SplitDot(_)
SplitDot(s) ==
    LET dots == {i \in 1..Len(s) : SubSeq(s, i, i) = "."}
    IN IF dots = {} THEN <<s>>
       ELSE <<SubSeq(s, 1, Min(dots) - 1)>> \o SplitDot(SubSeq(s, Min(dots) + 1, Len(s)))

\* a caller writes the path 'k1.k2.k3' for the keys k1, k2, k3
RECURSIVE JoinDot(_)
JoinDot(ks) ==
    IF Len(ks) = 0 THEN ""
    ELSE IF Len(ks) = 1 THEN ks[1]
    ELSE ks[1] \o "." \o JoinDot(Tail(ks))

\* getSettingValue: the path is split into a new array on every call
getSettingValue(cfgs, path, targetKey) == getValue(cfgs, SplitDot(path), targetKey).value

\* getStyles returning an empty array when the parent has no rows
getStylesEmptyWithoutRows(cfgs, parentKeyPaths, childTargetKeys) ==
    LET r == getValue(cfgs, parentKeyPaths, "rows")
    IN [value |-> IF r.value.t # "rows"
                  THEN <<>>
                  ELSE [i \in 1..Len(childTargetKeys) |->
                           getValue(r.value.rows, <<childTargetKeys[i]>>, "value").value],
        keyPaths |-> r.keyPaths]

\* getStyles: the rows of the parent, then one getValue per child key, each
\* with an array literal of its own
getStyles(cfgs, parentKeyPaths, childTargetKeys) ==
    LET r == getValue(cfgs, parentKeyPaths, "rows")
    IN [value |-> IF r.value.t # "rows"
                  THEN ArrayFillUndefined(Len(childTargetKeys))
                  ELSE [i \in 1..Len(childTargetKeys) |->
                           getValue(r.value.rows, <<childTargetKeys[i]>>, "value").value],
        keyPaths |-> r.keyPaths]

InitAccessors ==
    /\ configs \in ConfigLists
    /\ keyPaths \in SeqsUpTo(Keys, MaxPath)
    /\ call = NoCall
    /\ ret = Undefined
    /\ FormatIdle
    /\ TooltipIdle
    /\ ReferenceIdle
    /\ DropIdle
    /\ ScatterIdle
    /\ AxisIdle
    /\ ToaIdle
    /\ ReqIdle

CallGetValue ==
    \E tk \in TargetKeys :
        LET r == getValue(configs, keyPaths, tk)
        IN /\ call' = [op |-> "getValue", path |-> keyPaths, targetKey |-> tk,
                       childKeys |-> <<>>]
           /\ ret' = r.value
           /\ keyPaths' = r.keyPaths
           /\ UNCHANGED <<configs, fmtVars, tipVars, refVars, dropVars, scatVars, axisVars,
                   toaVars, reqVars>>

CallGetStyleValue ==
    LET r == getStyleValue(configs, keyPaths)
    IN /\ call' = [op |-> "getStyleValue", path |-> keyPaths, targetKey |-> "value",
                   childKeys |-> <<>>]
       /\ ret' = r.value
       /\ keyPaths' = r.keyPaths
       /\ UNCHANGED <<configs, fmtVars, tipVars, refVars, dropVars, scatVars, axisVars,
                   toaVars, reqVars>>

\* the caller writes the keys of keyPaths as one dotted path string
CallGetSettingValue ==
    \E tk \in TargetKeys :
        /\ call' = [op |-> "getSettingValue", path |-> keyPaths, targetKey |-> tk,
                    childKeys |-> <<>>]
        /\ ret' = getSettingValue(configs, JoinDot(keyPaths), tk)
        /\ UNCHANGED <<configs, keyPaths, fmtVars, tipVars, refVars, dropVars, scatVars, axisVars,
                   toaVars, reqVars>>

CallGetStyles ==
    \E cks \in ChildKeyLists :
        LET r == getStyles(configs, keyPaths, cks)
        IN /\ call' = [op |-> "getStyles", path |-> keyPaths, targetKey |-> "value",
                       childKeys |-> cks]
           /\ ret' = r.value
           /\ keyPaths' = r.keyPaths
           /\ UNCHANGED <<configs, fmtVars, tipVars, refVars, dropVars, scatVars, axisVars,
                   toaVars, reqVars>>

NextAccessors ==
    \/ CallGetValue
    \/ CallGetStyleValue
    \/ CallGetSettingValue
    \/ CallGetStyles

SpecAccessors == InitAccessors /\ [][NextAccessors]_vars

----------------------------------------------------------------------------
(* Numbers and strings as the formatters use them *)

DecimalDigit == <<"0", "1", "2", "3", "4", "5", "6", "7", "8", "9">>

IsDigit(c) == \E d \in 1..10 : DecimalDigit[d] = c

DigitValue(c) == (CHOOSE d \in 1..10 : DecimalDigit[d] = c) - 1

RECURSIVE Pow10(_)
Pow10(k) == IF k = 0 THEN 1 ELSE 10 * Pow10(k - 1)

\* the decimal numeral of a natural number
RECURSIVE NatToString(_)
NatToString(n) ==
    IF n < 10 THEN DecimalDigit[n + 1]
    ELSE NatToString(n \div 10) \o DecimalDigit[(n % 10) + 1]

\* the natural number a string of digits denotes ("" denotes 0)
RECURSIVE DigitsToNat(_)
DigitsToNat(s) ==
    IF Len(s) = 0 THEN 0
    ELSE 10 * DigitsToNat(SubSeq(s, 1, Len(s) - 1)) + DigitValue(SubSeq(s, Len(s), Len(s)))

\* the string without its leading and trailing blanks
RECURSIVE TrimBlanks(_)
TrimBlanks(s) ==
    IF Len(s) > 0 /\ SubSeq(s, 1, 1) = " " THEN TrimBlanks(SubSeq(s, 2, Len(s)))
    ELSE IF Len(s) > 0 /\ SubSeq(s, Len(s), Len(s)) = " "
         THEN TrimBlanks(SubSeq(s, 1, Len(s) - 1))
    ELSE s

RECURSIVE StripTrailingZeros(_)
StripTrailingZeros(s) ==
    IF Len(s) > 0 /\ SubSeq(s, Len(s), Len(s)) = "0"
    THEN StripTrailingZeros(SubSeq(s, 1, Len(s) - 1))
    ELSE s

\* an unsigned decimal literal: digits, digits.digits, digits. or .digits
IsUnsignedDecimal(s) ==
    LET dots == {i \in 1..Len(s) : SubSeq(s, i, i) = "."}
    IN /\ Cardinality(dots) <= 1
       /\ Len(s) > Cardinality(dots)
       /\ \A i \in 1..Len(s) : i \in dots \/ IsDigit(SubSeq(s, i, i))

\* the number an unsigned decimal literal denotes
UnsignedDecimal(s) ==
    LET dots == {i \in 1..Len(s) : SubSeq(s, i, i) = "."}
    IN IF ~IsUnsignedDecimal(s) THEN NaN
       ELSE IF dots = {} THEN Num(DigitsToNat(s), 1)
       ELSE LET d == CHOOSE i \in dots : TRUE
                frac == StripTrailingZeros(SubSeq(s, d + 1, Len(s)))
            IN Num(DigitsToNat(SubSeq(s, 1, d - 1)) * Pow10(Len(frac)) + DigitsToNat(frac),
                   Pow10(Len(frac)))

\* the unary plus: Number(value).  A string is trimmed; the empty string is 0;
\* a signed decimal literal is its number; any other string is NaN.
\* (Exponents, hexadecimal literals and 'Infinity' do not occur in the model.)
ToNumber(v) ==
    CASE v.t = "number" -> v
      [] v.t = "null" -> Num(0, 1)
      [] v.t = "string" ->
            LET body == TrimBlanks(v.s)
                sign == IF Len(body) > 0 /\ SubSeq(body, 1, 1) \in {"-", "+"}
                        THEN SubSeq(body, 1, 1) ELSE ""
                rest == IF sign = "" THEN body ELSE SubSeq(body, 2, Len(body))
                u == UnsignedDecimal(rest)
            IN IF body = "" THEN Num(0, 1)
               ELSE IF u.t = "nan" THEN NaN
               ELSE IF sign = "-" THEN Num(-u.num, u.den) ELSE u
      [] OTHER -> NaN

\* the global isNaN(value)
isNaN(v) == ToNumber(v).t = "nan"

\* the first k digits after the decimal point of r/den (0 <= r < den), and
\* the remainder left after them
RECURSIVE FractionDigits(_, _, _)
FractionDigits(r, den, k) ==
    IF k = 0 THEN [s |-> "", r |-> r]
    ELSE LET rest == FractionDigits((10 * r) % den, den, k - 1)
         IN [s |-> DecimalDigit[((10 * r) \div den) + 1] \o rest.s, r |-> rest.r]

\* the numeral of a string of digits plus one
RECURSIVE IncrementDigits(_)
IncrementDigits(s) ==
    IF Len(s) = 0 THEN "1"
    ELSE LET last == DigitValue(SubSeq(s, Len(s), Len(s)))
             init == SubSeq(s, 1, Len(s) - 1)
         IN IF last = 9 THEN IncrementDigits(init) \o "0"
            ELSE init \o DecimalDigit[last + 2]

\* Number.prototype.toFixed(digits): the nearest multiple of 10^-digits, the
\* larger one on a tie, written with exactly that many fractional digits
toFixed(x, digits) ==
    LET a == Abs(x.num)
        fd == FractionDigits(a % x.den, x.den, digits)
        truncated == NatToString(a \div x.den) \o fd.s
        all == IF 2 * fd.r >= x.den THEN IncrementDigits(truncated) ELSE truncated
    IN (IF x.num < 0 THEN "-" ELSE "")
           \o SubSeq(all, 1, Len(all) - digits)
           \o (IF digits = 0 THEN "" ELSE "." \o SubSeq(all, Len(all) - digits + 1, Len(all)))

\* Number.prototype.toString for a number with a finite decimal expansion
NumberToString(x) ==
    LET k == Min({j \in 0..8 : Pow10(j) % x.den = 0})
    IN toFixed(x, k)

\* String(value), as a template literal or Array.prototype.join applies it
StringOf(v) ==
    CASE v.t = "string" -> v.s
      [] v.t = "number" -> NumberToString(v)
      [] v.t = "nan" -> "NaN"
      [] v.t = "null" -> "null"
      [] OTHER -> "undefined"

----------------------------------------------------------------------------
(* toFormattedValue and its formatters.                                     *)
(* A format is [present, type, hasConfig, hasDecimalPlaces, decimalPlaces,  *)
(* useThousandSeparator, prefix, suffix, currency, dateFormat]: type "" is  *)
(* a missing type, hasConfig tells whether format[type] is there, and the   *)
(* other fields are those of format[type].  No config of the model has a    *)
(* unitKey.                                                                 *)

\* FieldFormatType
FormatDefault == "default"
FormatNumeric == "numeric"
FormatCurrency == "currency"
FormatPercentage == "percentage"
FormatScientific == "scientificNotation"
FormatDate == "date"

\* the largest decimalPlaces decimalPlacesFormater passes to toFixed
MaxDecimalPlaces == 100
\* the largest decimalPlaces the percentage and scientific formatters accept
MaxFractionDigits == 20

\* utils/object isEmpty, asked of config.decimalPlaces
isEmptyDecimalPlaces(config) == ~config.hasDecimalPlaces

unitFormater(value, config) == value

decimalPlacesFormater(value, config) ==
    IF isEmptyDecimalPlaces(config) THEN value
    ELSE IF isNaN(value) THEN value
    ELSE IF config.decimalPlaces < 0 \/ config.decimalPlaces > MaxDecimalPlaces THEN value
    ELSE Str(toFixed(ToNumber(value), config.decimalPlaces))

\* parts[0].replace(/\B(?=(\d{3})+(?!\d))/g, ','): a comma after character i
\* when characters i and i+1 are both word characters and the digits that
\* start at i+1 and run to the first non-digit are a multiple of three
RECURSIVE DigitRun(_, _)
DigitRun(s, i) ==
    IF i > Len(s) \/ ~IsDigit(SubSeq(s, i, i)) THEN 0 ELSE 1 + DigitRun(s, i + 1)

IsWordChar(c) == IsDigit(c) \/ c \in {"a", "b", "c", "_"}

RECURSIVE InsertCommas(_, _)
InsertCommas(s, i) ==
    IF i > Len(s) THEN ""
    ELSE SubSeq(s, i, i)
            \o (IF /\ i < Len(s)
                   /\ IsWordChar(SubSeq(s, i, i))
                   /\ DigitRun(s, i + 1) > 0
                   /\ DigitRun(s, i + 1) % 3 = 0
                THEN "," ELSE "")
            \o InsertCommas(s, i + 1)

thousandSeperatorFormater(value, config) ==
    IF isNaN(value) \/ ~config.useThousandSeparator THEN value
    ELSE LET str == StringOf(value)
             dots == {i \in 1..Len(str) : SubSeq(str, i, i) = "."}
             first == IF dots = {} THEN str ELSE SubSeq(str, 1, Min(dots) - 1)
             rest == IF dots = {} THEN "" ELSE SubSeq(str, Min(dots), Len(str))
         IN Str(InsertCommas(first, 1) \o rest)

\* NumericUnitDescriptions.get(NumberUnitKey.None)[1], the unit's suffix, is ''
numericFormater(value, config) ==
    IF isNaN(value) THEN value
    ELSE Str(config.prefix \o StringOf(thousandSeperatorFormater(value, config))
                 \o "" \o config.suffix)

\* Intl.NumberFormat('zh-CN', {style: 'currency', ...}).format(value) belongs to
\* the JavaScript engine: the currency code and the number stand in for it
currencyFormater(value, config) ==
    IF isNaN(value) THEN value
    ELSE Str((IF config.currency = "" THEN "CNY" ELSE config.currency)
                 \o toFixed(ToNumber(value),
                            IF config.hasDecimalPlaces /\ config.decimalPlaces \in 0..MaxFractionDigits
                            THEN config.decimalPlaces ELSE 2)
                 \o " " \o "")

\* percentage with every decimalPlaces passed to toFixed unchecked against 20
percentageFormaterKeepsZeroDigits(value, config) ==
    IF isNaN(value) THEN value
    ELSE LET x == ToNumber(value)
         IN Str(toFixed(Num(x.num * 100, x.den), 0) \o "%")

percentageFormater(value, config) ==
    IF isNaN(value) THEN value
    ELSE LET fractionDigits ==
                 IF /\ ~isEmptyDecimalPlaces(config)
                    /\ config.decimalPlaces >= 0
                    /\ config.decimalPlaces <= MaxFractionDigits
                 THEN config.decimalPlaces ELSE 0
             x == ToNumber(value)
         IN Str(toFixed(Num(x.num * 100, x.den), fractionDigits) \o "%")

\* Number.prototype.toExponential(digits): one digit before the point
scientificNotationFormater(value, config) ==
    IF isNaN(value) THEN value
    ELSE LET fractionDigits ==
                 IF /\ ~isEmptyDecimalPlaces(config)
                    /\ config.decimalPlaces >= 0
                    /\ config.decimalPlaces <= MaxFractionDigits
                 THEN config.decimalPlaces ELSE 0
             x == ToNumber(value)
             a == Abs(x.num)
             Scaled(e) == IF e >= 0 THEN Num(a, x.den * Pow10(e))
                          ELSE Num(a * Pow10(-e), x.den)
             \* the exponent that leaves one digit before the point after rounding
             Fits(e) == LET m == toFixed(Scaled(e), fractionDigits)
                        IN Len(m) = 1 + (IF fractionDigits = 0 THEN 0 ELSE 1 + fractionDigits)
                           /\ SubSeq(m, 1, 1) # "0"
             exps == {e \in -3..4 : Fits(e)}
             e == IF a = 0 \/ exps = {} THEN 0 ELSE Min(exps)
         IN Str((IF x.num < 0 THEN "-" ELSE "") \o toFixed(Scaled(e), fractionDigits)
                    \o "e" \o (IF e < 0 THEN "-" ELSE "+") \o NatToString(Abs(e)))

\* moment(value).format(config.format) belongs to the moment library: the
\* number and the pattern stand in for it
dateFormater(value, config) ==
    IF isNaN(value) \/ config.dateFormat = "" THEN value
    ELSE Str("moment(" \o StringOf(ToNumber(value)) \o ")." \o config.dateFormat)

toFormattedValue(value, format) ==
    IF value.t \in {"null", "undefined"} THEN Str("-")
    ELSE IF ~format.present \/ format.type = FormatDefault THEN value
    ELSE IF format.type = "" THEN value
    ELSE IF /\ value.t = "string"
            /\ format.type # FormatDate
            /\ (value.s = "" \/ isNaN(value))
         THEN value
    ELSE IF ~format.hasConfig THEN value
    ELSE CASE format.type = FormatNumeric ->
                 numericFormater(decimalPlacesFormater(unitFormater(value, format), format),
                                 format)
           [] format.type = FormatCurrency -> currencyFormater(value, format)
           [] format.type = FormatPercentage -> percentageFormater(value, format)
           [] format.type = FormatScientific -> scientificNotationFormater(value, format)
           [] format.type = FormatDate -> dateFormater(value, format)
           [] OTHER -> value

----------------------------------------------------------------------------
(* Field names and valueFormatter.  A field is [present, alias, aggregate, *)
(* colName, format]; alias "" is no alias name, aggregate "" no aggregate.  *)

getValueByColumnKey(f) ==
    IF ~f.present THEN ""
    ELSE IF f.aggregate = "" THEN f.colName
    ELSE f.aggregate \o "(" \o f.colName \o ")"

\* internalChartHelper getColumnRenderOriginName: aggregate(colName), or the
\* colName of a field without aggregate
getColumnRenderOriginName(f) ==
    IF f.aggregate = "" THEN f.colName
    ELSE f.aggregate \o "(" \o f.colName \o ")"

\* the render name without the alias test
getColumnRenderNameWithoutAlias(f) ==
    IF ~f.present THEN "[unknown]" ELSE getColumnRenderOriginName(f)

getColumnRenderName(f) ==
    IF ~f.present THEN "[unknown]"
    ELSE IF f.alias # "" THEN f.alias
    ELSE getColumnRenderOriginName(f)

\* config?.format
FormatOf(f) == f.format

valueFormatter(config, val) ==
    getColumnRenderName(config) \o ": " \o StringOf(toFormattedValue(val, FormatOf(config)))

FormatTypes ==
    {FormatDefault, "", FormatNumeric, FormatCurrency, FormatPercentage, FormatScientific,
     FormatDate, "custom"}

\* the decimalPlaces settings of the model; -2 stands for an absent setting
DecimalPlacesChoices == {-2, -1, 0, 2, 3, 20, 21}

Formats ==
    {NoFormat}
    \cup {[NoFormat EXCEPT !.present = TRUE, !.type = t] : t \in FormatTypes}
    \cup {[present |-> TRUE, type |-> t, hasConfig |-> TRUE,
           hasDecimalPlaces |-> (dp # -2), decimalPlaces |-> (IF dp = -2 THEN 0 ELSE dp),
           useThousandSeparator |-> (dp = 2), prefix |-> (IF dp = 0 THEN "$" ELSE ""),
           suffix |-> (IF dp = 3 THEN "!" ELSE ""), currency |-> (IF dp = 2 THEN "USD" ELSE ""),
           dateFormat |-> (IF dp = -2 THEN "" ELSE "YYYY")]
          : t \in FormatTypes, dp \in DecimalPlacesChoices}

Fields ==
    {NoField}
    \cup {[present |-> TRUE, alias |-> a, aggregate |-> g, colName |-> "name", format |-> f]
          : a \in {"", "Total"}, g \in {"", "SUM"}, f \in Formats}

CellValues ==
    {Null, Undefined, NaN,
     Num(0, 1), Num(1, 1), Num(1, 2), Num(-5, 4), Num(1, 200), Num(12345, 10)}
    \cup {Str(x) : x \in {"", " ", "1", "0.5", "-2", "1234.5", " 3 ", "abc", "12a", "X"}}

InitFormat ==
    /\ field \in Fields
    /\ cellValue \in CellValues
    /\ fmtOp = "none"
    /\ fmtRet = Undefined
    /\ AccessorsIdle
    /\ TooltipIdle
    /\ ReferenceIdle
    /\ DropIdle
    /\ ScatterIdle
    /\ AxisIdle
    /\ ToaIdle
    /\ ReqIdle

CallToFormattedValue ==
    /\ fmtOp' = "toFormattedValue"
    /\ fmtRet' = toFormattedValue(cellValue, FormatOf(field))
    /\ UNCHANGED <<field, cellValue, accVars, tipVars, refVars, dropVars, scatVars, axisVars,
                   toaVars, reqVars>>

CallValueFormatter ==
    /\ fmtOp' = "valueFormatter"
    /\ fmtRet' = Str(valueFormatter(field, cellValue))
    /\ UNCHANGED <<field, cellValue, accVars, tipVars, refVars, dropVars, scatVars, axisVars,
                   toaVars, reqVars>>

NextFormat ==
    \/ CallToFormattedValue
    \/ CallValueFormatter

SpecFormat == InitFormat /\ [][NextFormat]_vars

----------------------------------------------------------------------------
(* Tooltip assembly *)

\* ChartDataSet.getFieldOriginKey: the column key of the field in a row
getFieldOriginKey(f) == getValueByColumnKey(f)

\* row?.[key]
RowCell(row, key) == IF key \in DOMAIN row THEN row[key] ELSE Undefined

\* Array.prototype.join('<br />')
RECURSIVE JoinBr(_)
JoinBr(lines) ==
    IF Len(lines) = 0 THEN ""
    ELSE IF Len(lines) = 1 THEN lines[1]
    ELSE lines[1] \o "<br />" \o JoinBr(Tail(lines))

\* aggConfigs.filter(agg => getColumnRenderName(agg) === aggConfigName); a
\* missing aggConfigName (undefined) equals no render name
RECURSIVE FilterByRenderName(_, _, _)
FilterByRenderName(aggs, hasName, name) ==
    IF Len(aggs) = 0 THEN <<>>
    ELSE (IF hasName /\ getColumnRenderName(Head(aggs)) = name THEN <<Head(aggs)>> ELSE <<>>)
             \o FilterByRenderName(Tail(aggs), hasName, name)

OrEmpty(optional) == IF optional.has THEN optional.items ELSE <<>>

\* the tooltip with every aggregate field, whatever the series
getSeriesTooltipsAllAggregates(tooltipParam, groupConfigs, colorConfigs, aggConfigs, infoConfigs, sizeConfigs) ==
    IF tooltipParam.componentType # "series" THEN ""
    ELSE LET row == IF tooltipParam.hasRowData THEN tooltipParam.rowData ELSE <<>>
             all == groupConfigs \o colorConfigs \o aggConfigs
                       \o OrEmpty(sizeConfigs) \o OrEmpty(infoConfigs)
         IN JoinBr([i \in 1..Len(all) |->
                       valueFormatter(all[i], RowCell(row, getFieldOriginKey(all[i])))])

getSeriesTooltips4Rectangular2(tooltipParam, groupConfigs, colorConfigs, aggConfigs, infoConfigs, sizeConfigs) ==
    IF tooltipParam.componentType # "series" THEN ""
    ELSE LET hasName == tooltipParam.dataName # "" \/ tooltipParam.seriesName # ""
             aggConfigName == IF tooltipParam.dataName # "" THEN tooltipParam.dataName
                              ELSE tooltipParam.seriesName
             row == IF tooltipParam.hasRowData THEN tooltipParam.rowData ELSE <<>>
             all == groupConfigs \o colorConfigs
                       \o FilterByRenderName(aggConfigs, hasName, aggConfigName)
                       \o OrEmpty(sizeConfigs) \o OrEmpty(infoConfigs)
         IN JoinBr([i \in 1..Len(all) |->
                       valueFormatter(all[i], RowCell(row, getFieldOriginKey(all[i])))])

PlainField(col, agg, alias) ==
    [present |-> TRUE, alias |-> alias, aggregate |-> agg, colName |-> col, format |-> NoFormat]

CityField == PlainField("city", "", "")
TypeField == PlainField("type", "", "")
AmountField == PlainField("amount", "SUM", "")
PriceField ==
    [PlainField("price", "AVG", "Price") EXCEPT
        !.format = [NoFormat EXCEPT !.present = TRUE, !.type = FormatPercentage,
                                    !.hasConfig = TRUE, !.hasDecimalPlaces = TRUE,
                                    !.decimalPlaces = 2]]
\* a field whose alias is the render name of AmountField
QtyField == PlainField("qty", "", "SUM(amount)")
CountField == PlainField("qty", "COUNT", "")
NoteField == PlainField("note", "", "")

FullRow ==
    [k \in {"city", "type", "SUM(amount)", "AVG(price)", "qty", "COUNT(qty)", "note"} |->
        CASE k = "city" -> Str("Paris")
          [] k = "type" -> Str("x")
          [] k = "SUM(amount)" -> Num(3, 1)
          [] k = "AVG(price)" -> Num(1, 2)
          [] k = "qty" -> Num(7, 1)
          [] k = "COUNT(qty)" -> Num(2, 1)
          [] OTHER -> Null]

PartialRow == [k \in {"city"} |-> Str("Paris")]

TooltipCalls ==
    {[componentType |-> ct, seriesName |-> sn, dataName |-> dn, hasRowData |-> r.has,
      rowData |-> r.row, groupConfigs |-> g, colorConfigs |-> c, aggConfigs |-> a,
      infoConfigs |-> i, sizeConfigs |-> z] :
        ct \in {"series", "markLine"},
        sn \in {"", "Price", "other"},
        dn \in {"", "SUM(amount)", "Price"},
        r \in {[has |-> FALSE, row |-> <<>>], [has |-> TRUE, row |-> PartialRow],
               [has |-> TRUE, row |-> FullRow]},
        g \in {<<>>, <<CityField>>},
        c \in {<<>>, <<TypeField>>},
        a \in {<<>>, <<AmountField>>, <<AmountField, PriceField>>,
               <<PriceField, AmountField, QtyField>>},
        i \in {Absent, Passed(<<NoteField>>), Passed(<<NoteField, CityField>>)},
        z \in {Absent, Passed(<<CountField>>)}}

InitTooltip ==
    /\ tip \in TooltipCalls
    /\ tipRet = "(none)"
    /\ AccessorsIdle
    /\ FormatIdle
    /\ ReferenceIdle
    /\ DropIdle
    /\ ScatterIdle
    /\ AxisIdle
    /\ ToaIdle
    /\ ReqIdle

CallGetSeriesTooltips4Rectangular2 ==
    /\ tipRet = "(none)"
    /\ tipRet' = getSeriesTooltips4Rectangular2(tip, tip.groupConfigs, tip.colorConfigs,
                                                tip.aggConfigs, tip.infoConfigs,
                                                tip.sizeConfigs)
    /\ UNCHANGED <<tip, accVars, fmtVars, refVars, dropVars, scatVars, axisVars,
                   toaVars, reqVars>>

NextTooltip == CallGetSeriesTooltips4Rectangular2

SpecTooltip == InitTooltip /\ [][NextTooltip]_vars

----------------------------------------------------------------------------
(* Reference lines and areas.                                               *)
(* A mark is a config node with a label; its settings are its rows.  Every  *)
(* tab of the model has a rows array, and every enabled mark area has a     *)
(* borderStyle.                                                             *)

Setting(key, v) == [key |-> key, value |-> v, hasRows |-> FALSE, rows |-> <<>>]
Group(key, rows) == [key |-> key, value |-> Undefined, hasRows |-> TRUE, rows |-> rows]

\* Boolean(value)
Truthy(v) ==
    CASE v.t \in {"undefined", "null", "nan"} -> FALSE
      [] v.t = "string" -> v.s # ""
      [] v.t \in {"number", "boolean"} -> v.num # 0
      [] OTHER -> TRUE

\* Number.isFinite(value)
IsFinite(v) == v.t = "number"

Less(a, b) == a.num * b.den < b.num * a.den

\* Math.max(...values) of numbers and NaNs
MathMax(values) ==
    IF Len(values) = 0 THEN Infinity(-1)
    ELSE IF \E i \in 1..Len(values) : values[i].t = "nan" THEN NaN
    ELSE values[CHOOSE i \in 1..Len(values) : \A j \in 1..Len(values) : ~Less(values[i], values[j])]

\* Math.min(...values) of numbers and NaNs
MathMin(values) ==
    IF Len(values) = 0 THEN Infinity(1)
    ELSE IF \E i \in 1..Len(values) : values[i].t = "nan" THEN NaN
    ELSE values[CHOOSE i \in 1..Len(values) : \A j \in 1..Len(values) : ~Less(values[j], values[i])]

RECURSIVE SumOf(_)
SumOf(values) ==
    IF Len(values) = 0 THEN Num(0, 1)
    ELSE LET rest == SumOf(Tail(values))
         IN Num(Head(values).num * rest.den + rest.num * Head(values).den,
                Head(values).den * rest.den)

\* utils/object meanValue: the arithmetic mean
meanValue(values) ==
    IF Len(values) = 0 THEN emptyMean
    ELSE IF \E i \in 1..Len(values) : values[i].t = "nan" THEN NaN
    ELSE LET sum == SumOf(values) IN Num(sum.num, sum.den * Len(values))

\* ChartDataSetRow.getCell(field)
getCell(row, f) == RowCell(row, getFieldOriginKey(f))

\* d[key] with a key that may be undefined
RowProperty(row, key) == IF key.t = "string" THEN RowCell(row, key.s) ELSE Undefined

\* the switch on valueType
ReferenceValue(valueType, constantValue, metricDatas) ==
    CASE valueType = Str("constant") -> constantValue
      [] valueType = Str("average") -> meanValue(metricDatas)
      [] valueType = Str("max") -> MathMax(metricDatas)
      [] valueType = Str("min") -> MathMin(metricDatas)
      [] OTHER -> Num(0, 1)

MarkLineEntry(mark, yAxis, isHorizonDisplay) ==
    [t |-> "object",
     axis |-> IF isHorizonDisplay THEN "xAxis" ELSE "yAxis",
     value |-> yAxis,
     name |-> mark.label,
     label |-> [show |-> getSettingValue(mark.rows, "showLabel", "value"),
                position |-> getSettingValue(mark.rows, "position", "value"),
                font |-> getSettingValue(mark.rows, "font", "value")],
     lineStyle |-> getSettingValue(mark.rows, "lineStyle", "value")]

getMarkLineData(mark, dataColumns, valueTypeKey, constantValueKey, metricKey, dataConfig, isHorizonDisplay) ==
    LET enableMarkLine == getSettingValue(mark.rows, "enableMarkLine", "value")
        valueType == getSettingValue(mark.rows, valueTypeKey, "value")
        metricUid == getSettingValue(mark.rows, metricKey, "value")
        metr == getValueByColumnKey(dataConfig)
        metricDatas == IF Str(dataConfig.uid) = metricUid
                       THEN [i \in 1..Len(dataColumns) |-> ToNumber(RowCell(dataColumns[i], metr))]
                       ELSE <<>>
        constantValue == getSettingValue(mark.rows, constantValueKey, "value")
        yAxis == ReferenceValue(valueType, constantValue, metricDatas)
    IN IF ~Truthy(enableMarkLine) THEN Null
       ELSE MarkLineEntry(mark, yAxis, isHorizonDisplay)

getMarkLineData2(mark, dataSetRows, valueTypeKey, constantValueKey, metricKey, dataConfig, isHorizonDisplay) ==
    LET enableMarkLine == getSettingValue(mark.rows, "enableMarkLine", "value")
        valueType == getSettingValue(mark.rows, valueTypeKey, "value")
        metricUid == getSettingValue(mark.rows, metricKey, "value")
        metricDatas == IF Str(dataConfig.uid) = metricUid
                       THEN [i \in 1..Len(dataSetRows) |-> ToNumber(getCell(dataSetRows[i], dataConfig))]
                       ELSE <<>>
        constantValue == getSettingValue(mark.rows, constantValueKey, "value")
        yAxis == ReferenceValue(valueType, constantValue, metricDatas)
    IN IF ~Truthy(enableMarkLine) THEN Null
       ELSE MarkLineEntry(mark, yAxis, isHorizonDisplay)

\* refTabs.reduce(...): the rows of every tab whose key is the given one
RECURSIVE MarksOfKey(_, _)
MarksOfKey(tabs, key) ==
    IF Len(tabs) = 0 THEN <<>>
    ELSE SelectSeq(Head(tabs).rows, LAMBDA r : r.key = key) \o MarksOfKey(Tail(tabs), key)

\* .filter(Boolean) on entries, nulls and undefineds
FilterBoolean(entries) == SelectSeq(entries, LAMBDA e : e.t \notin {"null", "undefined"})

getMarkLine(refTabs, dataColumns, dataConfig, isHorizonDisplay) ==
    IF refTabs.t # "rows" THEN NoData
    ELSE LET marks == MarksOfKey(refTabs.rows, "markLine")
         IN Data(FilterBoolean([i \in 1..Len(marks) |->
                    getMarkLineData(marks[i], dataColumns, "valueType", "constantValue",
                                    "metric", dataConfig, isHorizonDisplay)]))

getMarkLine2(refTabs, dataSetRows, dataConfig, isHorizonDisplay) ==
    IF refTabs.t # "rows" THEN NoData
    ELSE LET marks == MarksOfKey(refTabs.rows, "markLine")
         IN Data(FilterBoolean([i \in 1..Len(marks) |->
                    getMarkLineData2(marks[i], dataSetRows, "valueType", "constantValue",
                                     "metric", dataConfig, isHorizonDisplay)]))

MarkAreaEntry(mark, yAxis, isHorizonDisplay) ==
    [t |-> "object",
     axis |-> IF isHorizonDisplay THEN "xAxis" ELSE "yAxis",
     value |-> yAxis,
     name |-> mark.value,
     label |-> [show |-> getSettingValue(mark.rows, "showLabel", "value"),
                position |-> getSettingValue(mark.rows, "position", "value"),
                font |-> getSettingValue(mark.rows, "font", "value")],
     itemStyle |-> [opacity |-> getSettingValue(mark.rows, "opacity", "value"),
                    color |-> getSettingValue(mark.rows, "backgroundColor", "value"),
                    border |-> getSettingValue(mark.rows, "borderStyle", "value")]]

getMarkAreaData(mark, dataColumns, valueTypeKey, constantValueKey, metricKey, isHorizonDisplay) ==
    LET enableMarkArea == getSettingValue(mark.rows, "enableMarkArea", "value")
        valueType == getSettingValue(mark.rows, valueTypeKey, "value")
        metric == getSettingValue(mark.rows, metricKey, "value")
        metricDatas == [i \in 1..Len(dataColumns) |-> ToNumber(RowProperty(dataColumns[i], metric))]
        constantValue == getSettingValue(mark.rows, constantValueKey, "value")
        yAxis == ReferenceValue(valueType, constantValue, metricDatas)
    IN IF ~Truthy(enableMarkArea) THEN Null
       ELSE MarkAreaEntry(mark, yAxis, isHorizonDisplay)

getMarkAreaData2(mark, dataSetRows, valueTypeKey, constantValueKey, metricKey, dataConfig, isHorizonDisplay) ==
    LET metric == getSettingValue(mark.rows, metricKey, "value")
        enableMarkArea == getSettingValue(mark.rows, "enableMarkArea", "value")
        valueType == getSettingValue(mark.rows, valueTypeKey, "value")
        metricDatas == IF Str(dataConfig.uid) = metric
                       THEN [i \in 1..Len(dataSetRows) |-> ToNumber(getCell(dataSetRows[i], dataConfig))]
                       ELSE <<>>
        constantValue == getSettingValue(mark.rows, constantValueKey, "value")
        yAxis == ReferenceValue(valueType, constantValue, metricDatas)
    IN IF ~Truthy(enableMarkArea) \/ ~IsFinite(yAxis) THEN Undefined
       ELSE MarkAreaEntry(mark, yAxis, isHorizonDisplay)

getMarkArea(refTabs, dataColumns, isHorizonDisplay) ==
    IF refTabs.t # "rows" THEN NoData
    ELSE LET refAreas == MarksOfKey(refTabs.rows, "markArea")
             markAreaData(mark) ==
                 FilterBoolean(<<getMarkAreaData(mark, dataColumns, "startValueType",
                                                 "startConstantValue", "startMetric",
                                                 isHorizonDisplay),
                                 getMarkAreaData(mark, dataColumns, "endValueType",
                                                 "endConstantValue", "endMetric",
                                                 isHorizonDisplay)>>)
         IN Data(SelectSeq([i \in 1..Len(refAreas) |-> markAreaData(refAreas[i])],
                           LAMBDA m : Len(m) # 0))

\* getMarkArea2 keeping every area that has an endpoint
getMarkArea2AnyEndpoint(refTabs, dataSetRows, dataConfig, isHorizonDisplay) ==
    IF refTabs.t # "rows" THEN NoData
    ELSE LET refAreas == MarksOfKey(refTabs.rows, "markArea")
             markAreaData(mark) ==
                 FilterBoolean(<<getMarkAreaData2(mark, dataSetRows, "startValueType",
                                                  "startConstantValue", "startMetric",
                                                  dataConfig, isHorizonDisplay),
                                 getMarkAreaData2(mark, dataSetRows, "endValueType",
                                                  "endConstantValue", "endMetric",
                                                  dataConfig, isHorizonDisplay)>>)
         IN Data(SelectSeq([i \in 1..Len(refAreas) |-> markAreaData(refAreas[i])],
                           LAMBDA m : Len(m) # 0))

getMarkArea2(refTabs, dataSetRows, dataConfig, isHorizonDisplay) ==
    IF refTabs.t # "rows" THEN NoData
    ELSE LET refAreas == MarksOfKey(refTabs.rows, "markArea")
             markAreaData(mark) ==
                 FilterBoolean(<<getMarkAreaData2(mark, dataSetRows, "startValueType",
                                                  "startConstantValue", "startMetric",
                                                  dataConfig, isHorizonDisplay),
                                 getMarkAreaData2(mark, dataSetRows, "endValueType",
                                                  "endConstantValue", "endMetric",
                                                  dataConfig, isHorizonDisplay)>>)
         IN Data(SelectSeq([i \in 1..Len(refAreas) |-> markAreaData(refAreas[i])],
                           LAMBDA m : Len(m) = 2))

getReference(settingConfigs, dataColumns, dataConfig, isHorizonDisplay) ==
    LET referenceTabs == getSettingValue(settingConfigs, "reference.panel.configuration", "rows")
    IN [markLine |-> getMarkLine(referenceTabs, dataColumns, dataConfig, isHorizonDisplay),
        markArea |-> getMarkArea(referenceTabs, dataColumns, isHorizonDisplay)]

getReference2(settingConfigs, dataSetRows, dataConfig, isHorizonDisplay) ==
    LET referenceTabs == getSettingValue(settingConfigs, "reference.panel.configuration", "rows")
    IN [markLine |-> getMarkLine2(referenceTabs, dataSetRows, dataConfig, isHorizonDisplay),
        markArea |-> getMarkArea2(referenceTabs, dataSetRows, dataConfig, isHorizonDisplay)]

\* the most mark lines of a reference configuration
MaxMarkLines == 2

ValueTypes == {"constant", "average", "max", "min"}

MetricField(uid, col, agg) ==
    [uid |-> uid, present |-> TRUE, alias |-> "", aggregate |-> agg, colName |-> col,
     format |-> NoFormat]

MetricFields == {MetricField("m1", "amount", "SUM"), MetricField("m2", "price", "")}

LineSettings(enable, valueType, metric) ==
    <<Setting("showLabel", Bool(TRUE)),
      Setting("enableMarkLine", Bool(enable)),
      Setting("valueType", Str(valueType)),
      Setting("constantValue", Num(5, 2)),
      Setting("metric", Str(metric)),
      Setting("position", Str("start")),
      Setting("lineStyle", Str("dashed"))>>

\* the settings of a mark line: enabled ones of every value type and metric,
\* a disabled one, and one with nothing but the switch
LineChoices ==
    {LineSettings(TRUE, vt, f.uid) : vt \in ValueTypes, f \in MetricFields}
        \cup {LineSettings(FALSE, "max", "m1"), <<Setting("enableMarkLine", Bool(TRUE))>>}

MarkLines(settings) ==
    [i \in 1..Len(settings) |->
        [key |-> "markLine", label |-> "L" \o DigitChar[i], value |-> Undefined,
         hasRows |-> TRUE, rows |-> settings[i]]]

AreaEnd(prefix, valueType, constantValue, metric) ==
    <<Setting(prefix \o "ValueType", Str(valueType)),
      Setting(prefix \o "ConstantValue", constantValue),
      Setting(prefix \o "Metric", Str(metric))>>

MarkArea(name, enable, start, end) ==
    [key |-> "markArea", label |-> name, value |-> Str(name), hasRows |-> TRUE,
     rows |-> <<Setting("enableMarkArea", Bool(enable)),
                Setting("showLabel", Bool(FALSE)),
                Setting("opacity", Num(1, 2)),
                Setting("backgroundColor", Str("grey")),
                Setting("borderStyle", Str("solid"))>> \o start \o end]

AreaLists ==
    {<<>>,
     <<MarkArea("A1", TRUE, AreaEnd("start", "constant", Num(1, 1), "m1"),
                            AreaEnd("end", "max", Undefined, "m1"))>>,
     <<MarkArea("A2", FALSE, AreaEnd("start", "min", Undefined, "m1"),
                             AreaEnd("end", "constant", Num(2, 1), "m1")),
       MarkArea("A3", TRUE, AreaEnd("start", "average", Undefined, "m2"),
                            AreaEnd("end", "constant", Undefined, "m2"))>>,
     <<MarkArea("A4", TRUE, AreaEnd("start", "min", Undefined, "m2"),
                            AreaEnd("end", "max", Undefined, "m2")),
       MarkArea("A5", TRUE, AreaEnd("start", "constant", Num(1, 1), "m2"),
                            AreaEnd("end", "constant", Num(3, 1), "m1"))>>}

\* the setting tree: the areas and the first line in one tab, the other
\* lines in a second tab
SettingConfigs(lines, areas) ==
    LET marks == MarkLines(lines)
        tabs == IF Len(marks) <= 1
                THEN <<Group("tab1", areas \o marks)>>
                ELSE <<Group("tab1", areas \o <<marks[1]>>), Group("tab2", Tail(marks))>>
    IN <<Setting("other", Str("x")),
         Group("reference", <<Group("panel", <<Group("configuration", tabs)>>)>>)>>

DataRow(amount, price) ==
    [k \in {"SUM(amount)", "price"} |-> IF k = "price" THEN price ELSE amount]

DataSets ==
    {<<>>,
     <<DataRow(Num(3, 1), Str("1.5")), DataRow(Num(-1, 1), Str("4"))>>,
     <<DataRow(Num(3, 1), Str("1.5")), DataRow(Null, Str("abc")), DataRow(Num(7, 2), Str("4"))>>}

InitReference ==
    /\ refIn \in
          {[settingConfigs |-> sc, rows |-> rows, dataConfig |-> f, isHorizonDisplay |-> h] :
              sc \in {<<>>} \cup {SettingConfigs(l, a) :
                                    l \in SeqsUpTo(LineChoices, MaxMarkLines), a \in AreaLists},
              rows \in DataSets, f \in MetricFields, h \in BOOLEAN}
    /\ emptyMean \in {NaN, Num(0, 1)}
    /\ refOp = "none"
    /\ refRet = NoReference
    /\ AccessorsIdle
    /\ FormatIdle
    /\ TooltipIdle
    /\ DropIdle
    /\ ScatterIdle
    /\ AxisIdle
    /\ ToaIdle
    /\ ReqIdle

CallGetReference ==
    /\ refOp = "none"
    /\ refOp' = "getReference"
    /\ refRet' = getReference(refIn.settingConfigs, refIn.rows, refIn.dataConfig,
                              refIn.isHorizonDisplay)
    /\ UNCHANGED <<refIn, emptyMean, accVars, fmtVars, tipVars, dropVars, scatVars, axisVars,
                   toaVars, reqVars>>

CallGetReference2 ==
    /\ refOp = "none"
    /\ refOp' = "getReference2"
    /\ refRet' = getReference2(refIn.settingConfigs, refIn.rows, refIn.dataConfig,
                               refIn.isHorizonDisplay)
    /\ UNCHANGED <<refIn, emptyMean, accVars, fmtVars, tipVars, dropVars, scatVars, axisVars,
                   toaVars, reqVars>>

NextReference == CallGetReference \/ CallGetReference2

SpecReference == InitReference /\ [][NextReference]_vars

----------------------------------------------------------------------------
(* The drag target container.                                               *)
(* A row is [uid, colName, category, type, aggregate, alias, sort, format,  *)
(* filter, color, size]; "" stands for a property the object does not have. *)

DATASET_COLUMN == "DATASET_COLUMN"
DATA_CONFIG_COLUMN == "DATA_CONFIG_COLUMN"

Row(uid, colName, category, type, aggregate) ==
    [uid |-> uid, colName |-> colName, category |-> category, type |-> type,
     aggregate |-> aggregate, alias |-> "", sort |-> "", format |-> "", filter |-> "",
     color |-> "", size |-> ""]

\* currentConfig.rows || []
RowsOrEmpty(config) == IF config.hasRows THEN config.rows ELSE <<>>

\* a findIndex that finds nothing
FindIndexByUidNeverFinds(rows, uid) == -1

\* Array.prototype.findIndex: the 0-based index of the first match, -1 if none
FindIndexByUid(rows, uid) ==
    LET hits == {i \in 1..Len(rows) : rows[i].uid = uid}
    IN IF hits = {} THEN -1 ELSE Min(hits) - 1

\* draft.splice(start, 1) with 0 <= start < length
SpliceOut(rows, start) == SubSeq(rows, 1, start) \o SubSeq(rows, start + 2, Len(rows))

\* draft.splice(start, 0, x): a start beyond the end inserts at the end, a
\* missing start (hasStart = FALSE) inserts at the front
SpliceIn(rows, hasStart, start, x) ==
    LET at == IF ~hasStart THEN 0 ELSE IF start > Len(rows) THEN Len(rows) ELSE start
    IN SubSeq(rows, 1, at) \o <<x>> \o SubSeq(rows, at + 1, Len(rows))

\* actions.find(type => type === Aggregate || type === AggregateLimit)
FindAggregateAction(actions) ==
    LET hits == {i \in 1..Len(actions) : actions[i] \in {"aggregate", "aggregateLimit"}}
    IN IF hits = {} THEN "" ELSE actions[Min(hits)]

\* AggregateFieldSubAggregateType[aggType]
AggregateFieldSubAggregateType(aggType) ==
    IF aggType = "aggregate" THEN <<"SUM", "AVG", "COUNT", "COUNT_DISTINCT", "MAX", "MIN">>
    ELSE <<"COUNT", "COUNT_DISTINCT">>

\* getDefaultAggregate: with an array of actions the result of find is
\* dropped and aggType stays ''
getDefaultAggregate(config, item) ==
    IF config.type \notin {"aggregate", "size", "info", "mixed"} THEN ""
    ELSE IF config.disableAggregate THEN ""
    ELSE IF item.category = "aggregateComputedField" THEN ""
    ELSE LET aggType ==
                 IF config.actions.kind = "object" /\ item.type \in DOMAIN config.actions.byType
                 THEN FindAggregateAction(config.actions.byType[item.type])
                 ELSE ""
         IN IF aggType # "" THEN AggregateFieldSubAggregateType(aggType)[1] ELSE ""

getConfigColumn(config, val, uid) ==
    Row(IF uid # "" THEN uid ELSE val.uid, val.colName, val.category, val.type,
        getDefaultAggregate(config, val))

\* utils/mutation updateByKey(currentConfig, 'rows', newColumns)
updateRows(config, newColumns) == [config EXCEPT !.hasRows = TRUE, !.rows = newColumns]

\* updateCurrentConfigColumns that never asks for a dataset refresh
updateCurrentConfigColumnsWithoutRefresh(config, newColumns, refreshDataset) ==
    [config |-> updateRows(config, newColumns),
     calls |-> IF onConfigChangedGiven
               THEN <<[config |-> updateRows(config, newColumns), refreshDataset |-> FALSE]>>
               ELSE <<>>]

\* updateCurrentConfigColumns: the config handed to setCurrentConfig and the
\* calls of onConfigChanged
updateCurrentConfigColumns(config, newColumns, refreshDataset) ==
    [config |-> updateRows(config, newColumns),
     calls |-> IF onConfigChangedGiven
               THEN <<[config |-> updateRows(config, newColumns),
                       refreshDataset |-> refreshDataset]>>
               ELSE <<>>]

\* the n-th identifier uuidv4 generates
uuidv4(n) == "uuid-" \o DigitChar[n]

\* drop(item, monitor): the update it makes, the identifiers it draws and the
\* object it returns
drop(drag) ==
    IF drag.itemType = DATASET_COLUMN
    THEN LET currentColumns ==
                 RowsOrEmpty(currentConfig)
                     \o [i \in 1..Len(drag.items) |->
                            getConfigColumn(currentConfig, drag.items[i], uuidv4(uuidCount + i))]
         IN [update |-> updateCurrentConfigColumns(currentConfig, currentColumns, TRUE),
             uuids |-> Len(drag.items),
             result |-> [delete |-> TRUE]]
    ELSE LET item == drag.items[1]
             originItemIndex == FindIndexByUid(RowsOrEmpty(currentConfig), item.uid)
             column == getConfigColumn(currentConfig, item, "")
         IN IF originItemIndex > -1
            THEN [update |-> updateCurrentConfigColumns(
                                 currentConfig,
                                 SpliceIn(SpliceOut(RowsOrEmpty(currentConfig), originItemIndex),
                                          drag.hasIndex, drag.index, column),
                                 FALSE),
                  uuids |-> 0,
                  result |-> [delete |-> FALSE]]
            ELSE [update |-> updateCurrentConfigColumns(
                                 currentConfig,
                                 SpliceIn(RowsOrEmpty(currentConfig), drag.hasIndex, drag.index,
                                          column),
                                 FALSE),
                  uuids |-> 0,
                  result |-> [delete |-> TRUE]]

\* the property names of an array: its indexes and 'length'
ArrayKeys(list) == {NatToString(i - 1) : i \in 1..Len(list)} \cup {"length"}

\* val.type in (currentConfig.actions || {})
TypeInActions(type, actions) ==
    CASE actions.kind = "object" -> type \in DOMAIN actions.byType
      [] actions.kind = "array" -> type \in ArrayKeys(actions.list)
      [] OTHER -> FALSE

\* canDrop(item, monitor); typeof is 'object' for a map and for an array
canDrop(drag) ==
    IF /\ currentConfig.actions.kind \in {"object", "array"}
       /\ ~(\A i \in 1..Len(drag.items) :
                TypeInActions(drag.items[i].type, currentConfig.actions))
    THEN FALSE
    ELSE IF currentConfig.allowSameField THEN TRUE
    ELSE IF drag.itemType = DATA_CONFIG_COLUMN THEN TRUE
    ELSE \A i \in 1..Len(drag.items) :
            ~(/\ currentConfig.hasRows
              /\ \E j \in 1..Len(currentConfig.rows) :
                    currentConfig.rows[j].colName = drag.items[i].colName)

\* handleOnDeleteItem that deletes the first row, whatever its uid
handleOnDeleteItemFirstRow(uid) ==
    IF uid = "" THEN [config |-> currentConfig, calls |-> <<>>]
    ELSE LET newCurrentConfig == [currentConfig EXCEPT !.rows = SubSeq(@, 2, Len(@))]
         IN [config |-> newCurrentConfig,
             calls |-> IF onConfigChangedGiven
                       THEN <<[config |-> newCurrentConfig, refreshDataset |-> TRUE]>>
                       ELSE <<>>]

\* handleOnDeleteItem(uid)(): the config handed to setCurrentConfig and the
\* calls of onConfigChanged
handleOnDeleteItem(uid) ==
    IF uid = "" THEN [config |-> currentConfig, calls |-> <<>>]
    ELSE LET newCurrentConfig ==
                 [currentConfig EXCEPT
                     !.rows = SelectSeq(currentConfig.rows, LAMBDA c : c.uid # uid)]
         IN [config |-> newCurrentConfig,
             calls |-> IF onConfigChangedGiven
                       THEN <<[config |-> newCurrentConfig, refreshDataset |-> TRUE]>>
                       ELSE <<>>]

\* handleDraggableItemMove that does not ask canDraggableItemMove
handleDraggableItemMoveUnasked(dragIndex, hoverIndex, canDraggableItemMove) ==
    IF ~currentConfig.hasRows THEN [config |-> currentConfig, returned |-> FALSE]
    ELSE IF dragIndex < Len(currentConfig.rows)
         THEN [config |-> [currentConfig EXCEPT
                              !.rows = SpliceIn(SpliceOut(currentConfig.rows, dragIndex), TRUE,
                                                hoverIndex, currentConfig.rows[dragIndex + 1])],
               returned |-> TRUE]
         ELSE [config |-> currentConfig, returned |-> FALSE]

\* handleDraggableItemMove(dragIndex, hoverIndex): the config it leaves and
\* what it returns; rows[dragIndex] is undefined beyond the last row
handleDraggableItemMove(dragIndex, hoverIndex, canDraggableItemMove) ==
    IF ~currentConfig.hasRows THEN [config |-> currentConfig, returned |-> FALSE]
    ELSE IF canDraggableItemMove = "veto" THEN [config |-> currentConfig, returned |-> FALSE]
    ELSE IF dragIndex < Len(currentConfig.rows)
         THEN [config |-> [currentConfig EXCEPT
                              !.rows = SpliceIn(SpliceOut(currentConfig.rows, dragIndex), TRUE,
                                                hoverIndex, currentConfig.rows[dragIndex + 1])],
               returned |-> TRUE]
         ELSE [config |-> currentConfig, returned |-> FALSE]

\* the most rows of a section before a drop
MaxRows == 2

\* the most handler calls of one behaviour
MaxSteps == 1

ConfiguredRows ==
    {[Row("r1", "amount", "field", "NUMERIC", "AVG") EXCEPT
         !.alias = "Total", !.sort = "ASC", !.format = "percentage"],
     Row("r2", "city", "field", "STRING", ""),
     [Row("r3", "ratio", "aggregateComputedField", "NUMERIC", "") EXCEPT
         !.filter = "gt 0", !.color = "red", !.size = "3"]}

\* the columns of the dataset, which carry no uid
DatasetColumns ==
    {Row("", "amount", "field", "NUMERIC", ""),
     Row("", "city", "field", "STRING", ""),
     Row("", "ratio", "aggregateComputedField", "NUMERIC", "")}

SectionConfigs ==
    {[type |-> "group", actions |-> NoActions, disableAggregate |-> FALSE,
      allowSameField |-> FALSE],
     [type |-> "aggregate", actions |-> NoActions, disableAggregate |-> FALSE,
      allowSameField |-> TRUE],
     [type |-> "aggregate",
      actions |-> [kind |-> "array", list |-> <<"alias", "aggregate">>, byType |-> <<>>],
      disableAggregate |-> FALSE, allowSameField |-> FALSE],
     [type |-> "aggregate",
      actions |-> [kind |-> "object", list |-> <<>>,
                   byType |-> [t \in {"NUMERIC", "STRING"} |->
                                  IF t = "NUMERIC" THEN <<"alias", "aggregate">>
                                  ELSE <<"aggregateLimit">>]],
      disableAggregate |-> FALSE, allowSameField |-> FALSE],
     [type |-> "mixed",
      actions |-> [kind |-> "object", list |-> <<>>,
                   byType |-> [t \in {"NUMERIC"} |-> <<"aggregate">>]],
      disableAggregate |-> TRUE, allowSameField |-> FALSE]}

\* the row lists of a section: no uid twice
RowLists ==
    {rows \in SeqsUpTo(ConfiguredRows, MaxRows) :
        \A i, j \in 1..Len(rows) : i # j => rows[i].uid # rows[j].uid}

\* what can be dropped on the section: one dataset column or an array of
\* them, or one configured field with the index it was dragged to
Drags(rows) ==
    {[itemType |-> DATASET_COLUMN, isArray |-> FALSE, items |-> <<c>>, hasIndex |-> FALSE,
      index |-> 0] : c \in DatasetColumns}
    \cup {[itemType |-> DATASET_COLUMN, isArray |-> TRUE, items |-> <<c, d>>,
           hasIndex |-> FALSE, index |-> 0] : c \in DatasetColumns, d \in DatasetColumns}
    \cup {[itemType |-> DATA_CONFIG_COLUMN, isArray |-> FALSE, items |-> <<r>>,
           hasIndex |-> TRUE, index |-> i] : r \in ConfiguredRows, i \in 0..(Len(rows) + 1)}
    \cup {[itemType |-> DATA_CONFIG_COLUMN, isArray |-> FALSE, items |-> <<r>>,
           hasIndex |-> FALSE, index |-> 0] : r \in ConfiguredRows}

InitDrop ==
    /\ currentConfig \in
          {[type |-> sc.type, actions |-> sc.actions, disableAggregate |-> sc.disableAggregate,
            allowSameField |-> sc.allowSameField, hasRows |-> hr, rows |-> rows] :
              sc \in SectionConfigs, hr \in BOOLEAN, rows \in RowLists}
    /\ currentConfig.hasRows \/ currentConfig.rows = <<>>
    /\ onConfigChangedGiven \in BOOLEAN
    /\ configChanges = <<>>
    /\ uuidCount = 0
    /\ handled = NoHandlerCall
    /\ steps = 0
    /\ AccessorsIdle
    /\ FormatIdle
    /\ TooltipIdle
    /\ ReferenceIdle
    /\ ScatterIdle
    /\ AxisIdle
    /\ ToaIdle
    /\ ReqIdle

Drop ==
    /\ steps < MaxSteps
    /\ \E drag \in Drags(RowsOrEmpty(currentConfig)) :
          LET r == drop(drag)
          IN /\ currentConfig' = r.update.config
             /\ configChanges' = configChanges \o r.update.calls
             /\ uuidCount' = uuidCount + r.uuids
             /\ handled' = [NoHandlerCall EXCEPT
                               !.op = "drop", !.drag = drag,
                               !.rowsBefore = RowsOrEmpty(currentConfig),
                               !.callsBefore = Len(configChanges), !.result = r.result,
                               !.configBefore = <<currentConfig>>]
    /\ steps' = steps + 1
    /\ UNCHANGED <<onConfigChangedGiven, accVars, fmtVars, tipVars, refVars, scatVars, axisVars,
                   toaVars, reqVars>>

CanDrop ==
    /\ steps < MaxSteps
    /\ \E drag \in Drags(RowsOrEmpty(currentConfig)) :
          handled' = [NoHandlerCall EXCEPT
                         !.op = "canDrop", !.drag = drag,
                         !.rowsBefore = RowsOrEmpty(currentConfig),
                         !.callsBefore = Len(configChanges),
                         !.configBefore = <<currentConfig>>, !.returned = canDrop(drag)]
    /\ steps' = steps + 1
    /\ UNCHANGED <<currentConfig, onConfigChangedGiven, configChanges, uuidCount,
                   accVars, fmtVars, tipVars, refVars, scatVars, axisVars,
                   toaVars, reqVars>>

HandleOnDeleteItem ==
    /\ steps < MaxSteps
    /\ \E uid \in {""} \cup {r.uid : r \in ConfiguredRows} :
          LET r == handleOnDeleteItem(uid)
          IN /\ currentConfig' = r.config
             /\ configChanges' = configChanges \o r.calls
             /\ handled' = [NoHandlerCall EXCEPT
                               !.op = "handleOnDeleteItem", !.uid = uid,
                               !.rowsBefore = RowsOrEmpty(currentConfig),
                               !.callsBefore = Len(configChanges),
                               !.configBefore = <<currentConfig>>]
    /\ steps' = steps + 1
    /\ UNCHANGED <<onConfigChangedGiven, uuidCount, accVars, fmtVars, tipVars, refVars, scatVars, axisVars,
                   toaVars, reqVars>>

HandleDraggableItemMove ==
    /\ steps < MaxSteps
    /\ \E dragIndex \in 0..Len(currentConfig.rows), hoverIndex \in 0..Len(currentConfig.rows),
          canDraggableItemMove \in {"absent", "allow", "veto"} :
          LET r == handleDraggableItemMove(dragIndex, hoverIndex, canDraggableItemMove)
          IN /\ currentConfig' = r.config
             /\ handled' = [NoHandlerCall EXCEPT
                               !.op = "handleDraggableItemMove", !.dragIndex = dragIndex,
                               !.hoverIndex = hoverIndex,
                               !.canDraggableItemMove = canDraggableItemMove,
                               !.rowsBefore = RowsOrEmpty(currentConfig),
                               !.callsBefore = Len(configChanges),
                               !.configBefore = <<currentConfig>>, !.returned = r.returned]
    /\ steps' = steps + 1
    /\ UNCHANGED <<onConfigChangedGiven, configChanges, uuidCount,
                   accVars, fmtVars, tipVars, refVars, scatVars, axisVars,
                   toaVars, reqVars>>

NextDrop == Drop \/ CanDrop \/ HandleOnDeleteItem \/ HandleDraggableItemMove

SpecDrop == InitDrop /\ [][NextDrop]_vars

----------------------------------------------------------------------------
(* The scatter symbol size.  Arithmetic on numbers, NaN and the infinities. *)

Sign(n) == IF n < 0 THEN -1 ELSE IF n > 0 THEN 1 ELSE 0

\* a - b
JsSub(a, b) ==
    CASE a.t = "number" /\ b.t = "number" -> Num(a.num * b.den - b.num * a.den, a.den * b.den)
      [] a.t = "infinity" /\ b.t = "number" -> a
      [] a.t = "number" /\ b.t = "infinity" -> Infinity(-b.num)
      [] a.t = "infinity" /\ b.t = "infinity" /\ a.num # b.num -> a
      [] OTHER -> NaN

\* a * b
JsMul(a, b) ==
    CASE a.t = "number" /\ b.t = "number" -> Num(a.num * b.num, a.den * b.den)
      [] a.t \in {"number", "infinity"} /\ b.t \in {"number", "infinity"} ->
            IF a.num = 0 \/ b.num = 0 THEN NaN ELSE Infinity(Sign(a.num) * Sign(b.num))
      [] OTHER -> NaN

\* a / b: a division by zero is an infinity, or NaN for 0 / 0
JsDiv(a, b) ==
    CASE a.t = "number" /\ b.t = "number" ->
            IF b.num # 0 THEN Num(a.num * b.den * Sign(b.num), a.den * Abs(b.num))
            ELSE IF a.num = 0 THEN NaN ELSE Infinity(Sign(a.num))
      [] a.t = "infinity" /\ b.t = "number" ->
            Infinity(a.num * (IF b.num < 0 THEN -1 ELSE 1))
      [] a.t = "number" /\ b.t = "infinity" -> Num(0, 1)
      [] OTHER -> NaN

\* Math.max(3, x)
MathMax3(x) ==
    CASE x.t = "number" -> MathMax(<<Num(3, 1), x>>)
      [] x.t = "infinity" -> IF x.num > 0 THEN x ELSE Num(3, 1)
      [] OTHER -> NaN

\* val?.[valueIndex]
PointValue(val, valueIndex) ==
    IF val.has /\ valueIndex < Len(val.items) THEN val.items[valueIndex + 1] ELSE Undefined

\* getScatterSymbolSizeFn with the distance 0 left as it is
getScatterSymbolSizeFnZeroDistance(valueIndex, max, min, cycleRatio) ==
    LET min1 == MathMin(<<Num(0, 1), ToNumber(min)>>)
    IN [made |-> TRUE, valueIndex |-> valueIndex, min |-> min1,
        scaleRatio |-> IF Truthy(cycleRatio) THEN cycleRatio ELSE Num(1, 1),
        distance |-> JsSub(ToNumber(max), min1)]

\* getScatterSymbolSizeFn: what the returned function closes over
getScatterSymbolSizeFn(valueIndex, max, min, cycleRatio) ==
    LET min1 == MathMin(<<Num(0, 1), ToNumber(min)>>)
    IN [made |-> TRUE, valueIndex |-> valueIndex, min |-> min1,
        scaleRatio |-> IF Truthy(cycleRatio) THEN cycleRatio ELSE Num(1, 1),
        distance |-> IF JsSub(ToNumber(max), min1) = Num(0, 1) THEN Num(100, 1)
                     ELSE JsSub(ToNumber(max), min1)]

defaultScatterPointPixelSize == 10

\* the function getScatterSymbolSizeFn returns, applied to val
SymbolSizeOf(fn, val) ==
    MathMax3(JsMul(JsMul(JsMul(JsDiv(JsSub(ToNumber(PointValue(val, fn.valueIndex)), fn.min),
                                     fn.distance),
                               fn.scaleRatio),
                         Num(defaultScatterPointPixelSize, 1)),
                   Num(2, 1)))

ScatterPoints ==
    {<<Num(7, 1), Num(-10, 1)>>, <<Num(0, 1), Num(5, 1)>>, <<Num(1000, 1), Num(10, 1)>>,
     <<Num(3, 2)>>}

InitScatter ==
    /\ scatterIn \in
          {[valueIndex |-> i, max |-> max, min |-> min, cycleRatio |-> c, val |-> v] :
              i \in {0, 1},
              max \in {Num(-5, 1), Num(0, 1), Num(10, 1), Num(1, 2)},
              min \in {Num(-10, 1), Num(0, 1), Num(3, 1)},
              c \in {Undefined, Num(0, 1), Num(1, 2), Num(2, 1)},
              v \in {Absent} \cup {Passed(p) : p \in ScatterPoints}}
    /\ sizeFn = NoSizeFn
    /\ symbolSize = Undefined
    /\ AccessorsIdle
    /\ FormatIdle
    /\ TooltipIdle
    /\ ReferenceIdle
    /\ DropIdle
    /\ AxisIdle
    /\ ToaIdle
    /\ ReqIdle

CallGetScatterSymbolSizeFn ==
    /\ ~sizeFn.made
    /\ sizeFn' = getScatterSymbolSizeFn(scatterIn.valueIndex, scatterIn.max, scatterIn.min,
                                        scatterIn.cycleRatio)
    /\ UNCHANGED <<scatterIn, symbolSize, accVars, fmtVars, tipVars, refVars, dropVars,
                   axisVars, toaVars, reqVars>>

CallSymbolSize ==
    /\ sizeFn.made
    /\ symbolSize = Undefined
    /\ symbolSize' = SymbolSizeOf(sizeFn, scatterIn.val)
    /\ UNCHANGED <<scatterIn, sizeFn, accVars, fmtVars, tipVars, refVars, dropVars,
                   axisVars, toaVars, reqVars>>

NextScatter == CallGetScatterSymbolSizeFn \/ CallSymbolSize

SpecScatter == InitScatter /\ [][NextScatter]_vars

----------------------------------------------------------------------------
(* The axis label overflow options *)

\* getIntervalShow
getIntervalShow(interval) == interval # Str("auto") /\ interval # Null

\* a parameter declared as horizon = false
HorizonOf(horizon) == IF horizon.t = "undefined" THEN FALSE ELSE Truthy(horizon)

\* hadAxisLabelOverflowConfig; options.xAxis and options.yAxis are lists of axes
hadAxisLabelOverflowConfig(options, horizon) ==
    IF ~options.has THEN Bool(FALSE)
    ELSE LET axes == IF ~HorizonOf(horizon) THEN options.xAxis ELSE options.yAxis
             axisLabelOpts == IF axes.has /\ Len(axes.items) > 0 THEN axes.items[1].axisLabel
                              ELSE NoAxisLabel
         IN IF ~axisLabelOpts.has THEN Bool(FALSE)
            ELSE IF ~Truthy(axisLabelOpts.show) THEN axisLabelOpts.show
            ELSE IF ~Truthy(axisLabelOpts.overflow) THEN axisLabelOpts.overflow
            ELSE Bool(getIntervalShow(axisLabelOpts.interval))

\* the first significant decimal digit of n/d, 0 < n < d
RECURSIVE LeadingDigit(_, _)
LeadingDigit(n, d) == IF n >= d THEN n \div d ELSE LeadingDigit(10 * n, d)

\* parseInt(String(x)): String writes a number below 10^-6 in magnitude with
\* an exponent, as in '1e-7', and parseInt reads the digits before the first
\* character that is not one.  (No number of the model reaches 10^21.)
parseIntOfString(x) ==
    CASE x.t = "number" ->
            IF x.num # 0 /\ Abs(x.num) <= (x.den - 1) \div 1000000
            THEN Num(Sign(x.num) * LeadingDigit(Abs(x.num), x.den), 1)
            ELSE Num(Sign(x.num) * (Abs(x.num) \div x.den), 1)
      [] OTHER -> NaN

\* internalChartHelper getAxisLengthByConfig: the length is an input of the model
getAxisLengthByConfig(config) == config.axisLength

\* setWidth
setWidth(horizon, width, dataLength) ==
    IF horizon THEN Num(40, 1)
    ELSE parseIntOfString(JsDiv(JsSub(width, Num(dataLength * 8, 1)), Num(dataLength, 1)))

\* the width the axis is laid out with
AxisWidthOf(config) ==
    IF config.chart.hasModel /\ config.chart.hasRect THEN config.chart.width
    ELSE getAxisLengthByConfig(config)

\* setOptionsByAxisLabelOverflow without the return for an axis without data
setOptionsByAxisLabelOverflowNoDataCheck(config) ==
    LET horizon == HorizonOf(config.horizon)
        axisOpts == IF ~horizon THEN config.xAxis ELSE config.yAxis
        dataLength == IF axisOpts.data.has THEN Len(axisOpts.data.items) ELSE 0
        overflow == axisOpts.axisLabel.overflow
        show == axisOpts.axisLabel.show
        showInterval == getIntervalShow(axisOpts.axisLabel.interval)
        width == IF showInterval THEN setWidth(horizon, AxisWidthOf(config), dataLength)
                 ELSE Undefined
        axisLabel == [axisOpts.axisLabel EXCEPT
                         !.hideOverlap = Bool(TRUE), !.overflow = overflow, !.width = width,
                         !.written = {"hideOverlap", "overflow", "width"}]
        axis == [axisOpts EXCEPT
                    !.axisLabel = axisLabel,
                    !.axisPointer = IF showInterval /\ overflow = Str("truncate")
                                    THEN "shadow" ELSE @]
        commonOpts == [grid |-> config.grid, xAxis |-> config.xAxis, yAxis |-> config.yAxis,
                       series |-> config.series]
    IN IF ~Truthy(show) THEN [commonOpts |-> commonOpts, divisors |-> {}]
       ELSE [commonOpts |-> IF ~horizon THEN [commonOpts EXCEPT !.xAxis = axis]
                            ELSE [commonOpts EXCEPT !.yAxis = axis],
             divisors |-> IF showInterval /\ ~horizon THEN {dataLength} ELSE {}]

\* setOptionsByAxisLabelOverflow: the options returned, which share their axes
\* with config, and the data lengths setWidth divided by
setOptionsByAxisLabelOverflow(config) ==
    LET horizon == HorizonOf(config.horizon)
        axisOpts == IF ~horizon THEN config.xAxis ELSE config.yAxis
        dataLength == IF axisOpts.data.has THEN Len(axisOpts.data.items) ELSE 0
        overflow == axisOpts.axisLabel.overflow
        show == axisOpts.axisLabel.show
        showInterval == getIntervalShow(axisOpts.axisLabel.interval)
        width == IF showInterval THEN setWidth(horizon, AxisWidthOf(config), dataLength)
                 ELSE Undefined
        axisLabel == [axisOpts.axisLabel EXCEPT
                         !.hideOverlap = Bool(TRUE), !.overflow = overflow, !.width = width,
                         !.written = {"hideOverlap", "overflow", "width"}]
        axis == [axisOpts EXCEPT
                    !.axisLabel = axisLabel,
                    !.axisPointer = IF showInterval /\ overflow = Str("truncate")
                                    THEN "shadow" ELSE @]
        commonOpts == [grid |-> config.grid, xAxis |-> config.xAxis, yAxis |-> config.yAxis,
                       series |-> config.series]
    IN IF ~Truthy(show) THEN [commonOpts |-> commonOpts, divisors |-> {}]
       ELSE IF dataLength = 0 THEN [commonOpts |-> commonOpts, divisors |-> {}]
       ELSE [commonOpts |-> IF ~horizon THEN [commonOpts EXCEPT !.xAxis = axis]
                            ELSE [commonOpts EXCEPT !.yAxis = axis],
             divisors |-> IF showInterval /\ ~horizon THEN {dataLength} ELSE {}]

AxisLabels ==
    {NoAxisLabel} \cup
    {AxisLabel(show, overflow, interval) :
        show \in {Undefined, Bool(TRUE), Bool(FALSE)},
        overflow \in {Undefined, Str("truncate"), Str("break")},
        interval \in {Undefined, Null, Str("auto"), Num(0, 1)}}

AxisDatas == {Absent, Passed(<<>>), Passed(<<"a">>), Passed(<<"a", "b", "c">>)}

\* the axis the function does not lay out
OtherAxes == {NoAxis, Axis(Passed(<<"v">>), AxisLabel(Bool(TRUE), Str("truncate"), Num(0, 1)))}

Charts ==
    {[hasModel |-> FALSE, hasRect |-> FALSE, width |-> Undefined],
     [hasModel |-> TRUE, hasRect |-> FALSE, width |-> Undefined]}
    \cup {[hasModel |-> TRUE, hasRect |-> TRUE, width |-> w] :
             w \in {Num(800, 1), Num(4, 1), Num(240000003, 10000000)}}

InitAxis ==
    /\ \E axis \in {Axis(d, l) : d \in AxisDatas, l \in AxisLabels}, other \in OtherAxes,
          horizon \in {Undefined, Bool(FALSE), Bool(TRUE)}, chart \in Charts,
          axisLength \in {Num(600, 1), Num(80000001, 10000000)} :
          axisConfig = [chart |-> chart,
                        xAxis |-> IF HorizonOf(horizon) THEN other ELSE axis,
                        yAxis |-> IF HorizonOf(horizon) THEN axis ELSE other,
                        grid |-> "grid", series |-> "series",
                        horizon |-> horizon, axisLength |-> axisLength]
    /\ axisOp = "none"
    /\ axisRet = NoAxisRet
    /\ AccessorsIdle
    /\ FormatIdle
    /\ TooltipIdle
    /\ ReferenceIdle
    /\ DropIdle
    /\ ScatterIdle
    /\ ToaIdle
    /\ ReqIdle

CallSetOptionsByAxisLabelOverflow ==
    /\ axisOp = "none"
    /\ axisOp' = "setOptionsByAxisLabelOverflow"
    /\ LET r == setOptionsByAxisLabelOverflow(axisConfig)
       IN /\ axisRet' = [NoAxisRet EXCEPT !.commonOpts = r.commonOpts, !.divisors = r.divisors]
          \* commonOpts holds config's own axis objects
          /\ axisConfig' = [axisConfig EXCEPT !.xAxis = r.commonOpts.xAxis,
                                              !.yAxis = r.commonOpts.yAxis]
    /\ UNCHANGED <<accVars, fmtVars, tipVars, refVars, dropVars, scatVars, toaVars, reqVars>>

\* the options handed over are missing, lack the axis lists, have empty axis
\* lists, or list the axes of the configuration
CallHadAxisLabelOverflowConfig ==
    /\ axisOp = "none"
    /\ axisOp' = "hadAxisLabelOverflowConfig"
    /\ \E options \in {NoOptions,
                       [has |-> TRUE, xAxis |-> Absent, yAxis |-> Absent],
                       [has |-> TRUE, xAxis |-> Passed(<<>>), yAxis |-> Passed(<<>>)],
                       [has |-> TRUE, xAxis |-> Passed(<<axisConfig.xAxis>>),
                        yAxis |-> Passed(<<axisConfig.yAxis>>)]},
          horizon \in {Undefined, Bool(FALSE), Bool(TRUE)} :
          axisRet' = [NoAxisRet EXCEPT
                         !.options = options, !.horizon = horizon,
                         !.returned = hadAxisLabelOverflowConfig(options, horizon)]
    /\ UNCHANGED <<axisConfig, accVars, fmtVars, tipVars, refVars, dropVars, scatVars,
                   toaVars, reqVars>>

NextAxis == CallSetOptionsByAxisLabelOverflow \/ CallHadAxisLabelOverflowConfig

SpecAxis == InitAxis /\ [][NextAxis]_vars

----------------------------------------------------------------------------
(* transformToObjectArray.  An object is a function from its property names *)
(* to their values.                                                         *)

\* objCol[key] = value
SetProperty(objCol, key, value) ==
    [k \in DOMAIN objCol \cup {key} |-> IF k = key THEN value ELSE objCol[k]]

\* columns[j][i], undefined beyond the end of the row
CellAt(row, i) == IF i <= Len(row) THEN row[i] ELSE Undefined

\* the inner loop: objCol after the metas up to index i (counted from 1)
RECURSIVE ObjectOfRow(_, _, _)
ObjectOfRow(row, metas, i) ==
    IF i = 0 THEN <<>>
    ELSE LET objCol == ObjectOfRow(row, metas, i - 1)
             key == metas[i].name
         IN IF key # "" THEN SetProperty(objCol, key, CellAt(row, i)) ELSE objCol

\* utils/debugger Debugger.instance.measure: the value of the measured function
measure(result) == result

transformToObjectArray(columns, metas) ==
    IF ~columns.has \/ ~metas.has THEN <<>>
    ELSE measure([j \in 1..Len(columns.items) |->
                     ObjectOfRow(columns.items[j], metas.items, Len(metas.items))])

MaxColumns == 2
MaxMetas == 2

ToaCells == {Str("x"), Str("y")}
\* '' stands for a meta without a name
ToaMetas == {[name |-> n] : n \in {"", "name", "age"}}

InitToa ==
    /\ toaIn \in
          {[columns |-> c, metas |-> ms] :
              c \in {Absent} \cup {Passed(rows) :
                                      rows \in SeqsUpTo(SeqsUpTo(ToaCells, MaxMetas), MaxColumns)},
              ms \in {Absent} \cup {Passed(l) : l \in SeqsUpTo(ToaMetas, MaxMetas)}}
    /\ toaRet = NoToaRet
    /\ AccessorsIdle
    /\ FormatIdle
    /\ TooltipIdle
    /\ ReferenceIdle
    /\ DropIdle
    /\ ScatterIdle
    /\ AxisIdle
    /\ ReqIdle

CallTransformToObjectArray ==
    /\ ~toaRet.done
    /\ toaRet' = [done |-> TRUE, result |-> transformToObjectArray(toaIn.columns, toaIn.metas)]
    /\ UNCHANGED <<toaIn, accVars, fmtVars, tipVars, refVars, dropVars, scatVars, axisVars,
                   reqVars>>

NextToa == CallTransformToObjectArray

SpecToa == InitToa /\ [][NextToa]_vars

----------------------------------------------------------------------------
(* isMatchRequirement.  A requirement is [group, aggregate], each a range   *)
(* <<low, high>>; a section is [type, required, rows].                      *)

\* internalChartHelper isInRange: the range contains the count
isInRange(limit, count) == limit[1] <= count /\ count <= limit[2]

\* the sections of a type that are required, in order
RECURSIVE RequiredSectionsOf(_, _)
RequiredSectionsOf(dataConfigs, type) ==
    IF dataConfigs = <<>> THEN <<>>
    ELSE (IF dataConfigs[1].type = type /\ dataConfigs[1].required THEN <<dataConfigs[1]>>
          ELSE <<>>)
         \o RequiredSectionsOf(Tail(dataConfigs), type)

\* internalChartHelper getRequiredGroupedSections
getRequiredGroupedSections(dataConfigs) == RequiredSectionsOf(dataConfigs, "group")

\* internalChartHelper getRequiredAggregatedSections
getRequiredAggregatedSections(dataConfigs) == RequiredSectionsOf(dataConfigs, "aggregate")

\* sections.flatMap(config => config.rows || [])
RECURSIVE FlatMapRows(_)
FlatMapRows(sections) ==
    IF sections = <<>> THEN <<>>
    ELSE (IF sections[1].rows.has THEN sections[1].rows.items ELSE <<>>)
         \o FlatMapRows(Tail(sections))

\* isMatchRequirement asking every requirement to match
isMatchRequirementEvery(meta, config) ==
    LET dataConfigs == IF config.datas.has THEN config.datas.items ELSE <<>>
        groupedFieldConfigs == FlatMapRows(getRequiredGroupedSections(dataConfigs))
        aggregateFieldConfigs == FlatMapRows(getRequiredAggregatedSections(dataConfigs))
        requirements == IF meta.requirements.has THEN meta.requirements.items ELSE <<>>
    IN \A k \in 1..Len(requirements) :
          /\ isInRange(requirements[k].group, Len(groupedFieldConfigs))
          /\ isInRange(requirements[k].aggregate, Len(aggregateFieldConfigs))

isMatchRequirement(meta, config) ==
    LET dataConfigs == IF config.datas.has THEN config.datas.items ELSE <<>>
        groupedFieldConfigs == FlatMapRows(getRequiredGroupedSections(dataConfigs))
        aggregateFieldConfigs == FlatMapRows(getRequiredAggregatedSections(dataConfigs))
        requirements == IF meta.requirements.has THEN meta.requirements.items ELSE <<>>
    IN \E k \in 1..Len(requirements) :
          /\ isInRange(requirements[k].group, Len(groupedFieldConfigs))
          /\ isInRange(requirements[k].aggregate, Len(aggregateFieldConfigs))

MaxRequirements == 2
MaxSections == 2

Requirements ==
    {[group |-> g, aggregate |-> a] : g \in {<<1, 1>>, <<0, 2>>}, a \in {<<1, 1>>, <<0, 0>>}}

DataSections ==
    {[type |-> "group", required |-> TRUE, rows |-> Passed(<<"city">>)],
     [type |-> "group", required |-> TRUE, rows |-> Passed(<<"year", "month">>)],
     [type |-> "group", required |-> FALSE, rows |-> Passed(<<"day">>)],
     [type |-> "aggregate", required |-> TRUE, rows |-> Passed(<<"amount">>)],
     [type |-> "aggregate", required |-> TRUE, rows |-> Absent],
     [type |-> "info", required |-> TRUE, rows |-> Passed(<<"note">>)]}

InitReq ==
    /\ reqIn \in
          {[meta |-> [requirements |-> r], config |-> [datas |-> d]] :
              r \in {Absent} \cup {Passed(l) : l \in SeqsUpTo(Requirements, MaxRequirements)},
              d \in {Absent} \cup {Passed(l) : l \in SeqsUpTo(DataSections, MaxSections)}}
    /\ reqRet = NoReqRet
    /\ AccessorsIdle
    /\ FormatIdle
    /\ TooltipIdle
    /\ ReferenceIdle
    /\ DropIdle
    /\ ScatterIdle
    /\ AxisIdle
    /\ ToaIdle

CallIsMatchRequirement ==
    /\ ~reqRet.done
    /\ reqRet' = [done |-> TRUE, result |-> isMatchRequirement(reqIn.meta, reqIn.config)]
    /\ UNCHANGED <<reqIn, accVars, fmtVars, tipVars, refVars, dropVars, scatVars, axisVars,
                   toaVars>>

NextReq == CallIsMatchRequirement

SpecReq == InitReq /\ [][NextReq]_vars

----------------------------------------------------------------------------
(* The accessors' contract *)

\* the node a non-empty key path addresses: at each level the first node whose
\* key is the level's key, then down into its rows; <<>> when a level has none
RECURSIVE NodeAt(_, _)
NodeAt(cfgs, ks) ==
    LET hits == {i \in 1..Len(cfgs) : cfgs[i].key = ks[1]}
    IN IF hits = {} THEN <<>>
       ELSE IF Len(ks) = 1 THEN <<cfgs[Min(hits)]>>
       ELSE NodeAt(cfgs[Min(hits)].rows, Tail(ks))

\* C1: for a non-empty key path getValue returns the targetKey field of the
\* node the path addresses (first match at each level) and undefined when a
\* level has no node with the key; getSettingValue with the dotted path
\* returns what getValue returns for the array of the same keys.
C1_GetValueWalksPath ==
    /\ (call.op = "getValue" /\ call.path # <<>>) =>
          LET n == NodeAt(configs, call.path)
          IN ret = IF n = <<>> THEN Undefined ELSE Field(n[1], call.targetKey)
    /\ (call.op = "getSettingValue" /\ call.path # <<>>) =>
          ret = getValue(configs, call.path, call.targetKey).value

\* a walk of three levels that ends on a node
C1_Witness ==
    /\ call.op = "getValue"
    /\ Len(call.path) = 3
    /\ ret.t = "string"

\* C2: an accessor call leaves the caller's key-path array as it was.
C2_AccessorsLeaveKeyPaths ==
    call.op \in {"getValue", "getStyleValue", "getStyles"} => keyPaths = call.path

\* C3: getStyles returns one entry per child key, in order: the value of the
\* first child with that key under the parent the path addresses, undefined
\* when there is no such child, the parent has no rows or the path does not
\* resolve.
C3_GetStylesOneEntryPerChildKey ==
    call.op = "getStyles" =>
        LET parent == IF call.path = <<>> THEN <<>> ELSE NodeAt(configs, call.path)
            child(k) ==
                IF parent = <<>> THEN Undefined
                ELSE IF ~parent[1].hasRows THEN Undefined
                ELSE LET hits == {j \in 1..Len(parent[1].rows) : parent[1].rows[j].key = k}
                     IN IF hits = {} THEN Undefined
                        ELSE parent[1].rows[Min(hits)].value
        IN /\ Len(ret) = Len(call.childKeys)
           /\ \A i \in 1..Len(call.childKeys) : ret[i] = child(call.childKeys[i])

\* one child found and one missing
C3_Witness ==
    /\ call.op = "getStyles"
    /\ Len(ret) = 2
    /\ ret[1].t = "string"
    /\ ret[2].t = "undefined"

----------------------------------------------------------------------------
(* The formatters' contract *)

\* a string that reads as a decimal number: an optional sign, digits and at
\* most one decimal point, nothing else
IsNumericString(str) ==
    LET signed == Len(str) > 0 /\ SubSeq(str, 1, 1) \in {"-", "+"}
        body == IF signed THEN SubSeq(str, 2, Len(str)) ELSE str
        dots == {i \in 1..Len(body) : SubSeq(body, i, i) = "."}
    IN /\ Cardinality(dots) <= 1
       /\ \E i \in 1..Len(body) : i \notin dots
       /\ \A i \in 1..Len(body) :
             i \in dots \/ SubSeq(body, i, i) \in {DecimalDigit[d] : d \in 1..10}

\* C4: toFormattedValue returns '-' for null and undefined whatever the
\* format, and returns any other value unchanged when the format is missing,
\* its type is DEFAULT or missing, the format has no config entry under its
\* type, or the value is an empty or non-numeric string and the type is not
\* DATE.
C4_FallsBackToRawValue ==
    fmtOp = "toFormattedValue" =>
        LET format == field.format
        IN /\ cellValue.t \in {"null", "undefined"} => fmtRet = Str("-")
           /\ (/\ cellValue.t \notin {"null", "undefined"}
               /\ \/ ~field.present
                  \/ ~format.present
                  \/ format.type \in {FormatDefault, ""}
                  \/ ~format.hasConfig
                  \/ /\ cellValue.t = "string"
                     /\ ~IsNumericString(cellValue.s)
                     /\ format.type # FormatDate)
              => fmtRet = cellValue

\* C5: with a percentage format, a numeric value v (a number, or a numeric
\* string) comes back as 100 v rounded to d fractional digits, written with
\* exactly d fractional digits and a closing '%'; d is decimalPlaces when it
\* is in 0..20 and 0 otherwise.  (Every value of the model has at most three
\* fractional digits, so beyond three digits the expansion is exact.)
C5_PercentageDigits ==
    (/\ fmtOp = "toFormattedValue"
     /\ field.present
     /\ field.format.present
     /\ field.format.type = FormatPercentage
     /\ field.format.hasConfig
     /\ \/ cellValue.t = "number"
        \/ cellValue.t = "string" /\ IsNumericString(cellValue.s))
    => LET dp == field.format.decimalPlaces
           d == IF field.format.hasDecimalPlaces /\ dp >= 0 /\ dp <= 20 THEN dp ELSE 0
           out == fmtRet.s
           body == SubSeq(out, 1, Len(out) - 1)
           v == ToNumber(cellValue)
           keep == IF d < 3 THEN d ELSE 3
           head == SubSeq(body, 1, Len(body) - (d - keep))
           tail == SubSeq(body, Len(body) - (d - keep) + 1, Len(body))
           p == ToNumber(Str(head))
           diff == Abs(p.num * v.den - 100 * v.num * p.den)
       IN /\ fmtRet.t = "string"
          /\ Len(out) >= 2 + (IF d = 0 THEN 0 ELSE d + 1)
          /\ SubSeq(out, Len(out), Len(out)) = "%"
          /\ IF d = 0
             THEN \A i \in 1..Len(body) : SubSeq(body, i, i) # "."
             ELSE {i \in 1..Len(body) : SubSeq(body, i, i) = "."} = {Len(body) - d}
          /\ \A i \in 1..Len(tail) : SubSeq(tail, i, i) = "0"
          /\ p.t = "number"
          /\ 2 * Pow10(keep) * diff <= p.den * v.den
          /\ (d > keep => diff = 0)

\* '1' with two decimal places gives '100.00%'
C5_Witness ==
    /\ fmtOp = "toFormattedValue"
    /\ cellValue = Str("1")
    /\ field.format.type = FormatPercentage
    /\ field.format.hasConfig
    /\ field.format.hasDecimalPlaces
    /\ field.format.decimalPlaces = 2
    /\ fmtRet = Str("100.00%")

\* C8: valueFormatter returns '<name>: <text>': the name is the alias name
\* when one is set, else the origin name aggregate(colName), and '[unknown]'
\* without a config; the text is toFormattedValue(value, config.format), which
\* is '-' for null and undefined.
C8_ValueFormatterNameAndText ==
    fmtOp = "valueFormatter" =>
        LET name == IF ~field.present THEN "[unknown]"
                    ELSE IF field.alias # "" THEN field.alias
                    ELSE IF field.aggregate # ""
                         THEN field.aggregate \o "(" \o field.colName \o ")"
                    ELSE field.colName
            text == IF cellValue.t \in {"null", "undefined"} THEN "-"
                    ELSE StringOf(toFormattedValue(cellValue, field.format))
        IN /\ fmtRet = Str(name \o ": " \o text)
           /\ (/\ field.present /\ field.alias = "" /\ field.aggregate = "SUM"
               /\ field.colName = "name" /\ cellValue = Str("X"))
              => fmtRet = Str("SUM(name): X")

\* an aliased field with a percentage format
C8_Witness ==
    /\ fmtOp = "valueFormatter"
    /\ field.present
    /\ field.alias = "Total"
    /\ field.aggregate = "SUM"
    /\ cellValue = Num(1, 2)
    /\ fmtRet = Str("Total: 50.00%")

----------------------------------------------------------------------------
(* The tooltip's contract *)

\* C7: getSeriesTooltips4Rectangular2 returns '' unless componentType is
\* 'series'; else one line per field joined by '<br />', in the order group,
\* color, the aggregate fields whose render name is data.name (seriesName
\* when data.name is empty), size, info; each line is valueFormatter(field,
\* rowData[origin key of the field]).
C7_TooltipLinesInOrder ==
    tipRet # "(none)" =>
        IF tip.componentType # "series" THEN tipRet = ""
        ELSE LET wanted == IF tip.dataName # "" THEN tip.dataName ELSE tip.seriesName
                 IsSeries(f) ==
                     wanted # ""
                     /\ wanted = (IF f.alias # "" THEN f.alias
                                  ELSE f.aggregate \o "(" \o f.colName \o ")")
                 fields == tip.groupConfigs \o tip.colorConfigs
                              \o SelectSeq(tip.aggConfigs, IsSeries)
                              \o tip.sizeConfigs.items \o tip.infoConfigs.items
                 Cell(f) ==
                     LET key == IF f.aggregate = "" THEN f.colName
                                ELSE f.aggregate \o "(" \o f.colName \o ")"
                     IN IF tip.hasRowData /\ key \in DOMAIN tip.rowData
                        THEN tip.rowData[key] ELSE Undefined
                 line(i) == valueFormatter(fields[i], Cell(fields[i]))
                 \* the text up to and including line i
                 upTo[i \in 0..Len(fields)] ==
                     IF i = 0 THEN ""
                     ELSE IF i = 1 THEN line(1)
                     ELSE upTo[i - 1] \o "<br />" \o line(i)
             IN tipRet = upTo[Len(fields)]

\* a tooltip with a group line, the series' own aggregate out of several, a
\* size line and an info line
C7_Witness ==
    /\ tip.componentType = "series"
    /\ tip.dataName = ""
    /\ tip.seriesName = "Price"
    /\ tipRet = "city: Paris<br />Price: 50.00%<br />COUNT(qty): 2<br />note: -"

----------------------------------------------------------------------------
(* The reference lines' contract *)

\* C6: every enabled mark line of the reference settings is emitted by
\* getReference / getReference2, in order, under 'xAxis' when isHorizonDisplay
\* and 'yAxis' otherwise, with the reduction its valueType selects over the
\* column of its metric across all dataset rows: constantValue for 'constant',
\* the mean for 'average', the maximum for 'max', the minimum for 'min';
\* disabled mark lines are not emitted.  (The reductions are compared on
\* datasets with at least one row and a column of numbers.)
C6_MarkLineCarriesReduction ==
    (refOp # "none" /\ refIn.settingConfigs # <<>>) =>
        LET tabs == refIn.settingConfigs[2].rows[1].rows[1].rows
            linesUpTo[i \in 0..Len(tabs)] ==
                IF i = 0 THEN <<>>
                ELSE linesUpTo[i - 1] \o SelectSeq(tabs[i].rows, LAMBDA r : r.key = "markLine")
            setting(m, key) ==
                LET hits == {j \in 1..Len(m.rows) : m.rows[j].key = key}
                IN IF hits = {} THEN Undefined ELSE m.rows[Min(hits)].value
            enabled == SelectSeq(linesUpTo[Len(tabs)],
                                 LAMBDA m : setting(m, "enableMarkLine") = Bool(TRUE))
            column(m) ==
                LET f == CHOOSE g \in MetricFields : Str(g.uid) = setting(m, "metric")
                    key == IF f.aggregate = "" THEN f.colName
                           ELSE f.aggregate \o "(" \o f.colName \o ")"
                IN [i \in 1..Len(refIn.rows) |-> ToNumber(refIn.rows[i][key])]
            numeric(col) == Len(col) > 0 /\ \A i \in 1..Len(col) : col[i].t = "number"
            values(col) == {col[i] : i \in 1..Len(col)}
            emitted == refRet.markLine.data
        IN /\ refRet.markLine.hasData
           /\ Len(emitted) = Len(enabled)
           /\ \A k \in 1..Len(enabled) :
                 LET m == enabled[k]
                     valueType == setting(m, "valueType")
                 IN /\ emitted[k].name = m.label
                    /\ emitted[k].axis = (IF refIn.isHorizonDisplay THEN "xAxis" ELSE "yAxis")
                    /\ valueType = Str("constant") =>
                          emitted[k].value = setting(m, "constantValue")
                    /\ (valueType = Str("average") /\ numeric(column(m))) =>
                          emitted[k].value =
                              Num(SumOf(column(m)).num, SumOf(column(m)).den * Len(column(m)))
                    /\ (valueType = Str("max") /\ numeric(column(m))) =>
                          /\ emitted[k].value \in values(column(m))
                          /\ \A v \in values(column(m)) : ~Less(emitted[k].value, v)
                    /\ (valueType = Str("min") /\ numeric(column(m))) =>
                          /\ emitted[k].value \in values(column(m))
                          /\ \A v \in values(column(m)) : ~Less(v, emitted[k].value)

\* C21: every mark line entry emitted by getReference2 carries a finite
\* number as its axis value, for every dataset, the empty one included, and
\* every mark configuration, a mark whose metric is not the data field
\* passed in included.
C21_MarkLineValueIsFinite ==
    refOp = "getReference2" =>
        \A k \in 1..Len(refRet.markLine.data) : refRet.markLine.data[k].value.t = "number"

\* the mark areas of the reference settings, in order
ConfiguredAreas ==
    IF refIn.settingConfigs = <<>> THEN <<>>
    ELSE SelectSeq(refIn.settingConfigs[2].rows[1].rows[1].rows[1].rows,
                   LAMBDA r : r.key = "markArea")

AreaSetting(area, key) ==
    LET hits == {j \in 1..Len(area.rows) : area.rows[j].key = key}
    IN IF hits = {} THEN Undefined ELSE area.rows[Min(hits)].value

\* the column of the data field passed in, as numbers
PassedColumn ==
    LET f == refIn.dataConfig
        key == IF f.aggregate = "" THEN f.colName ELSE f.aggregate \o "(" \o f.colName \o ")"
    IN [i \in 1..Len(refIn.rows) |-> ToNumber(refIn.rows[i][key])]

\* an endpoint that is a constant which is no number, a minimum or maximum
\* over no values, or a reduction over a column with a value that is no number
EndpointWithoutValue(area, prefix) ==
    LET valueType == AreaSetting(area, prefix \o "ValueType")
        ownMetric == AreaSetting(area, prefix \o "Metric") = Str(refIn.dataConfig.uid)
    IN \/ valueType = Str("constant") /\ AreaSetting(area, prefix \o "ConstantValue").t # "number"
       \/ /\ valueType \in {Str("max"), Str("min")}
          /\ ~ownMetric \/ refIn.rows = <<>>
       \/ /\ valueType \in {Str("max"), Str("min"), Str("average")}
          /\ ownMetric
          /\ \E i \in 1..Len(PassedColumn) : PassedColumn[i].t # "number"

\* C22: every mark area emitted by getReference2 is a pair of two endpoints,
\* each with a finite number as its axis value; an area that is disabled, or
\* has an endpoint that evaluates to no finite number, is omitted entirely.
C22_MarkAreaIsFinitePair ==
    refOp = "getReference2" =>
        LET emitted == refRet.markArea.data
            names == {emitted[k][1].name : k \in 1..Len(emitted)}
        IN /\ \A k \in 1..Len(emitted) :
                 /\ Len(emitted[k]) = 2
                 /\ emitted[k][1].value.t = "number"
                 /\ emitted[k][2].value.t = "number"
                 /\ emitted[k][1].name = emitted[k][2].name
                 /\ \E i \in 1..Len(ConfiguredAreas) : ConfiguredAreas[i].value = emitted[k][1].name
           /\ \A i \in 1..Len(ConfiguredAreas) :
                 (\/ AreaSetting(ConfiguredAreas[i], "enableMarkArea") # Bool(TRUE)
                  \/ EndpointWithoutValue(ConfiguredAreas[i], "start")
                  \/ EndpointWithoutValue(ConfiguredAreas[i], "end")) =>
                    ConfiguredAreas[i].value \notin names

\* A4 spans the minimum to the maximum of a column that holds 'abc' and is
\* omitted; A5, between two constants, is emitted as a pair
C22_Witness ==
    /\ refOp = "getReference2"
    /\ refIn.dataConfig.uid = "m2"
    /\ Len(refIn.rows) = 3
    /\ Len(ConfiguredAreas) = 2
    /\ ConfiguredAreas[1].value = Str("A4")
    /\ Len(refRet.markArea.data) = 1
    /\ Len(refRet.markArea.data[1]) = 2
    /\ refRet.markArea.data[1][1].name = Str("A5")
    /\ refRet.markArea.data[1][1].value = Num(1, 1)
    /\ refRet.markArea.data[1][2].value = Num(3, 1)

----------------------------------------------------------------------------
(* The drag target container's contract *)

\* C9: a drop of DATASET_COLUMN items leaves the previous rows unchanged and
\* in order and appends one row per dropped item, in drag order, each with a
\* fresh uid and the item's colName, category and type; the row count grows
\* by the number of items, and onConfigChanged (when passed) is called once,
\* with the new config and refreshDataset = true.
C9_DatasetColumnsAppended ==
    (handled.op = "drop" /\ handled.drag.itemType = DATASET_COLUMN) =>
        LET before == handled.rowsBefore
            after == currentConfig.rows
            items == handled.drag.items
        IN /\ currentConfig.hasRows
           /\ Len(after) = Len(before) + Len(items)
           /\ SubSeq(after, 1, Len(before)) = before
           /\ \A i \in 1..Len(items) :
                 LET new == after[Len(before) + i]
                 IN /\ new.colName = items[i].colName
                    /\ new.category = items[i].category
                    /\ new.type = items[i].type
                    /\ new.uid # ""
                    /\ \A j \in 1..Len(after) : j # Len(before) + i => after[j].uid # new.uid
           /\ onConfigChangedGiven =>
                 /\ Len(configChanges) = handled.callsBefore + 1
                 /\ configChanges[Len(configChanges)]
                        = [config |-> currentConfig, refreshDataset |-> TRUE]

\* two columns dropped on a section of two rows, with the callback passed
C9_Witness ==
    /\ handled.op = "drop"
    /\ handled.drag.itemType = DATASET_COLUMN
    /\ Len(handled.drag.items) = 2
    /\ Len(handled.rowsBefore) = 2
    /\ Len(currentConfig.rows) = 4
    /\ Len(configChanges) = 1

\* C10: a drop of a DATA_CONFIG_COLUMN whose uid is in rows is a pure move:
\* the rows are a permutation of the previous rows, of the same length, every
\* row (the moved one too) keeps all of its settings, and only the moved row
\* changes position, to the drag item's index.
C10_ReorderIsPureMove ==
    (/\ handled.op = "drop"
     /\ handled.drag.itemType = DATA_CONFIG_COLUMN
     /\ \E i \in 1..Len(handled.rowsBefore) :
           handled.rowsBefore[i].uid = handled.drag.items[1].uid) =>
        LET before == handled.rowsBefore
            after == currentConfig.rows
            uid == handled.drag.items[1].uid
            moved == before[CHOOSE i \in 1..Len(before) : before[i].uid = uid]
        IN /\ Len(after) = Len(before)
           /\ {after[i] : i \in 1..Len(after)} = {before[i] : i \in 1..Len(before)}
           /\ SelectSeq(after, LAMBDA r : r.uid # uid)
                  = SelectSeq(before, LAMBDA r : r.uid # uid)
           /\ (handled.drag.hasIndex /\ handled.drag.index < Len(before)) =>
                 after[handled.drag.index + 1] = moved

\* C11: handleOnDeleteItem(uid) with a non-empty uid leaves the previous rows
\* without the rows of that uid, the others unchanged and in order, and calls
\* onConfigChanged (when passed) with the new config and refresh = true; with
\* an empty uid nothing changes and onConfigChanged is not called.
C11_DeleteRemovesExactlyThatField ==
    handled.op = "handleOnDeleteItem" =>
        LET before == handled.configBefore[1]
            kept == {i \in 1..Len(before.rows) : before.rows[i].uid # handled.uid}
            after == currentConfig.rows
        IN IF handled.uid = ""
           THEN currentConfig = before /\ Len(configChanges) = handled.callsBefore
           ELSE /\ currentConfig = [before EXCEPT !.rows = after]
                /\ Len(after) = Cardinality(kept)
                /\ \A i \in 1..Len(after) :
                      after[i] = before.rows[CHOOSE k \in kept :
                                                Cardinality({j \in kept : j <= k}) = i]
                /\ onConfigChangedGiven =>
                      /\ Len(configChanges) = handled.callsBefore + 1
                      /\ configChanges[Len(configChanges)]
                             = [config |-> currentConfig, refreshDataset |-> TRUE]

\* the second of two rows deleted, with the callback passed
C11_Witness ==
    /\ handled.op = "handleOnDeleteItem"
    /\ Len(handled.rowsBefore) = 2
    /\ handled.rowsBefore[2].uid = handled.uid
    /\ currentConfig.rows = <<handled.rowsBefore[1]>>
    /\ Len(configChanges) = 1

\* C16: canDrop is false exactly when (a) actions is a per-field-type map and
\* some dragged item's type is not a key of it, or (b) (a) does not apply,
\* allowSameField is not set, the drag is a DATASET_COLUMN and some dragged
\* item's colName is the colName of a row of the container; in every other
\* case (actions absent or a plain list of action types too) it is true.
C16_CanDropExactlyWhen ==
    handled.op = "canDrop" =>
        LET config == handled.configBefore[1]
            items == handled.drag.items
            a == /\ config.actions.kind = "object"
                 /\ \E i \in 1..Len(items) : items[i].type \notin DOMAIN config.actions.byType
            b == /\ ~a
                 /\ ~config.allowSameField
                 /\ handled.drag.itemType = DATASET_COLUMN
                 /\ \E i \in 1..Len(items), j \in 1..Len(config.rows) :
                       items[i].colName = config.rows[j].colName
        IN handled.returned = ~(a \/ b)

\* C17: drop returns {delete: false} if and only if the item is a
\* DATA_CONFIG_COLUMN whose uid is in the container's rows (the row count is
\* then unchanged); a DATA_CONFIG_COLUMN from elsewhere is inserted as one row
\* at the item's index (row count + 1) with {delete: true}; a DATASET_COLUMN
\* gives {delete: true}.
C17_DropTellsWhetherToDelete ==
    handled.op = "drop" =>
        LET before == handled.rowsBefore
            after == currentConfig.rows
            item == handled.drag.items[1]
            reorder == /\ handled.drag.itemType = DATA_CONFIG_COLUMN
                       /\ \E i \in 1..Len(before) : before[i].uid = item.uid
        IN /\ handled.result.delete = ~reorder
           /\ reorder => Len(after) = Len(before)
           /\ (handled.drag.itemType = DATA_CONFIG_COLUMN /\ ~reorder) =>
                 /\ Len(after) = Len(before) + 1
                 /\ (handled.drag.hasIndex /\ handled.drag.index <= Len(before)) =>
                       /\ after[handled.drag.index + 1].uid = item.uid
                       /\ SubSeq(after, 1, handled.drag.index)
                              \o SubSeq(after, handled.drag.index + 2, Len(after)) = before

\* a configured field from another container dropped between two rows
C17_Witness ==
    /\ handled.op = "drop"
    /\ handled.drag.itemType = DATA_CONFIG_COLUMN
    /\ handled.drag.hasIndex
    /\ handled.drag.index = 1
    /\ Len(handled.rowsBefore) = 2
    /\ Len(currentConfig.rows) = 3
    /\ handled.result.delete

\* C18: handleDraggableItemMove(dragIndex, hoverIndex) returns true if and
\* only if rows exist, canDraggableItemMove does not veto and there is a row
\* at dragIndex; the new rows are then the old ones with that row removed and
\* re-inserted at hoverIndex (a permutation, every row unchanged); when it
\* returns false currentConfig is unchanged; onConfigChanged is never called.
C18_HoverMoveIsLocal ==
    handled.op = "handleDraggableItemMove" =>
        LET before == handled.configBefore[1]
            after == currentConfig.rows
            n == Len(before.rows)
            moves == /\ before.hasRows
                     /\ handled.canDraggableItemMove # "veto"
                     /\ handled.dragIndex < n
            at == IF handled.hoverIndex < n THEN handled.hoverIndex + 1 ELSE n
        IN /\ handled.returned = moves
           /\ moves =>
                 /\ currentConfig = [before EXCEPT !.rows = after]
                 /\ Len(after) = n
                 /\ after[at] = before.rows[handled.dragIndex + 1]
                 /\ SubSeq(after, 1, at - 1) \o SubSeq(after, at + 1, n)
                        = SubSeq(before.rows, 1, handled.dragIndex)
                              \o SubSeq(before.rows, handled.dragIndex + 2, n)
           /\ ~moves => currentConfig = before
           /\ Len(configChanges) = handled.callsBefore

\* the first of two rows moved behind the second, the callback allowing it
C18_Witness ==
    /\ handled.op = "handleDraggableItemMove"
    /\ handled.canDraggableItemMove = "allow"
    /\ handled.dragIndex = 0
    /\ handled.hoverIndex = 1
    /\ handled.returned
    /\ Len(handled.rowsBefore) = 2
    /\ currentConfig.rows = <<handled.rowsBefore[2], handled.rowsBefore[1]>>

----------------------------------------------------------------------------
(* The scatter symbol size's contract *)

\* C12: getScatterSymbolSizeFn uses min' = min(0, min) and the divisor
\* max - min', 100 when that difference is 0, so the divisor is never 0; for
\* a numeric point value the size is max(3, (value - min') / divisor * ratio
\* * 20), ratio being cycleRatio or 1 when cycleRatio is absent or 0, and is
\* never less than 3.
C12_SymbolSizeAtLeastThree ==
    sizeFn.made =>
        LET lower == IF scatterIn.min.num < 0 THEN scatterIn.min ELSE Num(0, 1)
            difference == Num(scatterIn.max.num * lower.den - lower.num * scatterIn.max.den,
                              scatterIn.max.den * lower.den)
            divisor == IF difference.num = 0 THEN Num(100, 1) ELSE difference
            ratio == IF scatterIn.cycleRatio.t = "number" /\ scatterIn.cycleRatio.num # 0
                     THEN scatterIn.cycleRatio ELSE Num(1, 1)
            value == scatterIn.val.items[scatterIn.valueIndex + 1]
            scaled == Num((value.num * lower.den - lower.num * value.den)
                              * divisor.den * ratio.num * 20 * Sign(divisor.num),
                          value.den * lower.den * Abs(divisor.num) * ratio.den)
        IN /\ sizeFn.min = lower
           /\ sizeFn.distance = divisor
           /\ sizeFn.distance.num # 0
           /\ (/\ symbolSize # Undefined
               /\ scatterIn.val.has
               /\ scatterIn.valueIndex < Len(scatterIn.val.items)) =>
                 /\ symbolSize.t = "number"
                 /\ symbolSize.num >= 3 * symbolSize.den
                 /\ symbolSize = (IF scaled.num < 3 * scaled.den THEN Num(3, 1) ELSE scaled)

\* max equal to min' (both 0), so the divisor is 100: the point 5 gets the
\* floor 3, since 5 / 100 * 2 * 20 = 2
C12_Witness ==
    /\ scatterIn.max = Num(0, 1)
    /\ scatterIn.min = Num(3, 1)
    /\ scatterIn.cycleRatio = Num(2, 1)
    /\ sizeFn.distance = Num(100, 1)
    /\ scatterIn.val = Passed(<<Num(0, 1), Num(5, 1)>>)
    /\ scatterIn.valueIndex = 1
    /\ symbolSize = Num(3, 1)

----------------------------------------------------------------------------
(* The axis label overflow options' contract *)

\* the axis setOptionsByAxisLabelOverflow lays out, as it is after the call
LaidOutAxis == IF axisConfig.horizon = Bool(TRUE) THEN axisConfig.yAxis ELSE axisConfig.xAxis

LaidOutLength == IF LaidOutAxis.data.has THEN Len(LaidOutAxis.data.items) ELSE 0

AxisUntouched(axis) ==
    /\ axis.axisPointer = "none"
    /\ axis.axisLabel.written = {}
    /\ axis.axisLabel.hideOverlap = Undefined
    /\ axis.axisLabel.width = Undefined

\* C13: setOptionsByAxisLabelOverflow never divides by a data length of 0, and
\* when the label of the relevant axis is hidden or the axis has no data it
\* returns grid, xAxis, yAxis and series with no hideOverlap, overflow,
\* axisPointer or width set on any axis.
C13_NothingToLayOut ==
    axisOp = "setOptionsByAxisLabelOverflow" =>
        /\ \A n \in axisRet.divisors : n >= 1
        /\ (~Truthy(LaidOutAxis.axisLabel.show) \/ LaidOutLength = 0) =>
              /\ axisRet.commonOpts.grid = "grid"
              /\ axisRet.commonOpts.series = "series"
              /\ axisRet.commonOpts.xAxis = axisConfig.xAxis
              /\ axisRet.commonOpts.yAxis = axisConfig.yAxis
              /\ AxisUntouched(axisRet.commonOpts.xAxis)
              /\ AxisUntouched(axisRet.commonOpts.yAxis)

\* a shown label with a displayed interval on an axis whose data is empty
C13_Witness ==
    /\ axisOp = "setOptionsByAxisLabelOverflow"
    /\ axisConfig.horizon = Bool(FALSE)
    /\ axisConfig.xAxis.data = Passed(<<>>)
    /\ axisConfig.xAxis.axisLabel.show = Bool(TRUE)
    /\ axisConfig.xAxis.axisLabel.overflow = Str("truncate")
    /\ axisConfig.xAxis.axisLabel.interval = Num(0, 1)
    /\ axisRet.commonOpts.xAxis.axisLabel.written = {}

\* C19: with the label shown and n >= 1 data items the relevant axis label
\* gets hideOverlap = true, the axis gets a shadow axisPointer exactly when
\* the interval is neither 'auto' nor null and overflow is 'truncate', and
\* the label width is undefined when the interval is not displayed, 40 when
\* horizon is true, and otherwise the integer part of (W - 8n) / n, W being
\* the rendered axis width when the chart has the axis model and its
\* rectangle and the axis length of the config when it has not.
C19_LabelWidthIsIntegerPart ==
    (/\ axisOp = "setOptionsByAxisLabelOverflow"
     /\ Truthy(LaidOutAxis.axisLabel.show)
     /\ LaidOutLength >= 1) =>
        LET n == LaidOutLength
            displayed == LaidOutAxis.axisLabel.interval \notin {Str("auto"), Null}
            W == IF axisConfig.chart.hasModel /\ axisConfig.chart.hasRect
                 THEN axisConfig.chart.width ELSE axisConfig.axisLength
            above == W.num - 8 * n * W.den
            below == n * W.den
        IN /\ LaidOutAxis.axisLabel.hideOverlap = Bool(TRUE)
           /\ LaidOutAxis.axisPointer = "shadow" <=>
                 (displayed /\ LaidOutAxis.axisLabel.overflow = Str("truncate"))
           /\ LaidOutAxis.axisLabel.width =
                 (IF ~displayed THEN Undefined
                  ELSE IF axisConfig.horizon = Bool(TRUE) THEN Num(40, 1)
                  ELSE Num(Sign(above) * (Abs(above) \div below), 1))

\* the label hadAxisLabelOverflowConfig was asked about
AskedLabel ==
    LET axes == IF axisRet.horizon = Bool(TRUE) THEN axisRet.options.yAxis
                ELSE axisRet.options.xAxis
    IN IF axisRet.options.has /\ axes.has /\ Len(axes.items) > 0 THEN axes.items[1].axisLabel
       ELSE NoAxisLabel

\* C20: hadAxisLabelOverflowConfig reports the overflow condition only when
\* the first axis of the relevant kind has an axisLabel with show truthy,
\* overflow truthy and an interval that is set and is neither 'auto' nor
\* null; it returns false when options is missing or the axis has no
\* axisLabel.
C20_OverflowInEffectOnlyWhen ==
    axisOp = "hadAxisLabelOverflowConfig" =>
        /\ Truthy(axisRet.returned) =>
              /\ AskedLabel.has
              /\ Truthy(AskedLabel.show)
              /\ Truthy(AskedLabel.overflow)
              /\ AskedLabel.interval \notin {Undefined, Str("auto"), Null}
        /\ ~AskedLabel.has => axisRet.returned = Bool(FALSE)

----------------------------------------------------------------------------
(* transformToObjectArray's contract *)

\* C14: transformToObjectArray returns [] when columns or metas is missing;
\* otherwise it returns one object per row, in row order, in which for every
\* meta at index i with a non-empty name the property of that name holds the
\* cell columns[j][i], and the metas with an empty name give no property.
C14_OneObjectPerRow ==
    toaRet.done =>
        IF ~toaIn.columns.has \/ ~toaIn.metas.has THEN toaRet.result = <<>>
        ELSE LET columns == toaIn.columns.items
                 metas == toaIn.metas.items
             IN /\ Len(toaRet.result) = Len(columns)
                /\ \A j \in 1..Len(columns) :
                      /\ DOMAIN toaRet.result[j] =
                            {metas[i].name : i \in 1..Len(metas)} \ {""}
                      /\ \A i \in 1..Len(metas) :
                            metas[i].name # "" =>
                               toaRet.result[j][metas[i].name] =
                                  (IF i <= Len(columns[j]) THEN columns[j][i] ELSE Undefined)

----------------------------------------------------------------------------
(* isMatchRequirement's contract *)

\* the number of fields in the required sections of a type among the first s
RECURSIVE RequiredFieldCount(_, _)
RequiredFieldCount(type, s) ==
    IF s = 0 THEN 0
    ELSE LET section == reqIn.config.datas.items[s]
         IN RequiredFieldCount(type, s - 1)
               + (IF section.type = type /\ section.required /\ section.rows.has
                  THEN Len(section.rows.items) ELSE 0)

\* C15: isMatchRequirement is true exactly when some entry of
\* meta.requirements has its group range containing the number of fields in
\* the required group sections and its aggregate range containing the number
\* of fields in the required aggregate sections; it is false without
\* requirements, and a config without datas has zero fields of each kind.
C15_SomeRequirementMatches ==
    reqRet.done =>
        LET requirements == IF reqIn.meta.requirements.has THEN reqIn.meta.requirements.items
                            ELSE <<>>
            sections == IF reqIn.config.datas.has THEN Len(reqIn.config.datas.items) ELSE 0
            groups == RequiredFieldCount("group", sections)
            aggregates == RequiredFieldCount("aggregate", sections)
        IN /\ reqRet.result <=>
                 \E k \in 1..Len(requirements) :
                    /\ requirements[k].group[1] <= groups
                    /\ groups <= requirements[k].group[2]
                    /\ requirements[k].aggregate[1] <= aggregates
                    /\ aggregates <= requirements[k].aggregate[2]
           /\ requirements = <<>> => ~reqRet.result
           /\ ~reqIn.config.datas.has => (groups = 0 /\ aggregates = 0)

\* two group fields and one aggregate field: the first requirement fails on
\* its group range, the second one matches
C15_Witness ==
    /\ reqRet.done
    /\ reqRet.result
    /\ reqIn.meta.requirements =
          Passed(<<[group |-> <<1, 1>>, aggregate |-> <<1, 1>>],
                   [group |-> <<0, 2>>, aggregate |-> <<1, 1>>]>>)
    /\ reqIn.config.datas =
          Passed(<<[type |-> "group", required |-> TRUE, rows |-> Passed(<<"year", "month">>)],
                   [type |-> "aggregate", required |-> TRUE, rows |-> Passed(<<"amount">>)]>>)

====
